---- MODULE Spec2Model ----
(***************************************************************************)
(* Prompt library frontend: the Search component (search cache, debounced  *)
(* search, AI search) and the ThemeProvider (palette generation, theme     *)
(* registry).  What the user types into the search box is a sequence of    *)
(* character codes and a colour is a string taken apart character by       *)
(* character, so that trim, toLowerCase, includes and the parsing and      *)
(* formatting of colours are computed and not assumed.                     *)
(***************************************************************************)
EXTENDS Integers, Sequences, FiniteSets, TLC

VARIABLES searchTerm, filters, searchCache, results, loading, semanticLoading,
          categories, suggestions, debounceTimer, inflight, picks, incidents, event

VARIABLES themes, currentTheme, darkMode, localStorage, rootStyle, darkClass, now,
          themeEvent

themeVars == <<themes, currentTheme, darkMode, localStorage, rootStyle, darkClass, now,
               themeEvent>>

searchVars == <<searchTerm, filters, searchCache, results, loading,
                semanticLoading, categories, suggestions, debounceTimer,
                inflight, picks, incidents, event>>

\* one rendering of the result list: what it is computed from, and the list
VARIABLES rendering, sortedResults

listVars == <<rendering, sortedResults>>

\* the session: the tokens in localStorage, axios.defaults' Authorization
\* header, the AuthProvider's state, the page, the backend's view of the
\* tokens and the requests awaiting their response
VARIABLES accessToken, refreshToken, authorization, isAuthenticated, location,
          server, requests, sessionEvent

sessionVars == <<accessToken, refreshToken, authorization, isAuthenticated, location,
                 server, requests, sessionEvent>>

\* the prompt list page: the component's prompts and loading state, the
\* backend's favourite flags, the calls in flight, and for every prompt the
\* flag it was first loaded with and the number of its toggle calls that
\* succeeded
VARIABLES prompts, promptsLoading, backend, calls, toggleLog, promptsEvent

\* the prompt form: the component's state, the handleSubmit calls that await
\* a response, the create and update calls made so far, the number of
\* guardrails calls made, and the page shown
VARIABLES formData, originalFormData, isEditing, formLoading, isValidating,
          guardrailsEnabled, fieldErrors, loads, submissions, saveCalls,
          guardrailsCalls, page, formEvent

formVars == <<formData, originalFormData, isEditing, formLoading, isValidating,
              guardrailsEnabled, fieldErrors, loads, submissions, saveCalls,
              guardrailsCalls, page, formEvent>>

\* the fields of a prompt that have validation rules
FieldNames == {"title", "description", "content", "category", "tags"}

\* useState of formData
EmptyForm ==
    [title |-> <<>>, description |-> <<>>, content |-> <<>>, category |-> <<>>,
     tags |-> <<>>]

\* useState({}) of fieldErrors, and a field without an entry
NoError == [isValid |-> TRUE, errors |-> {}]

NoFieldErrors == [fieldName \in FieldNames |-> NoError]

\* the state before the form is opened
FormInit ==
    /\ formData = EmptyForm
    /\ originalFormData = <<>>
    /\ isEditing = FALSE
    /\ formLoading = FALSE
    /\ isValidating = FALSE
    /\ guardrailsEnabled = TRUE
    /\ fieldErrors = NoFieldErrors
    /\ loads = {}
    /\ submissions = <<>>
    /\ saveCalls = <<>>
    /\ guardrailsCalls = 0
    /\ page = "/prompts"
    /\ formEvent = [op |-> "none", outcome |-> "none", mounts |-> 0]

\* PromptImprovement: the prompt handed in by the form, the component's
\* state, the improvePrompt call in progress, and the requests made so far
VARIABLES currentPrompt, improvedPrompt, improving, improveError, improvementApplied,
          improveRun, improveLog, improveEvent

improvementVars == <<currentPrompt, improvedPrompt, improving, improveError,
                     improvementApplied, improveRun, improveLog, improveEvent>>

\* no improvePrompt call in progress
NoRun == [phase |-> "idle", prompt |-> <<>>, candidate |-> <<>>, pre |-> "none", post |-> "none"]

\* the state of a PromptImprovement that has just been shown for the content p1
ImprovementInit ==
    /\ currentPrompt = <<112, 49>>
    /\ improvedPrompt = <<>>
    /\ improving = FALSE
    /\ improveError = "null"
    /\ improvementApplied = FALSE
    /\ improveRun = NoRun
    /\ improveLog = <<>>
    /\ improveEvent = "none"

\* a value handed to the validation utilities, what sanitizeContent made of
\* it and how often it has been applied, and the result of validateField
VARIABLES input, sanitized, applied, verdict

validationVars == <<input, sanitized, applied, verdict>>

promptListVars == <<prompts, promptsLoading, backend, calls, toggleLog, promptsEvent>>

\* what the operations of the Search component leave alone
nonSearchVars == <<themeVars, listVars, sessionVars, promptListVars, validationVars, formVars, improvementVars>>

\* what the operations of the ThemeProvider leave alone
nonThemeVars == <<searchVars, listVars, sessionVars, promptListVars, validationVars, formVars, improvementVars>>

\* what a render of the result list leaves alone
nonListVars == <<searchVars, themeVars, sessionVars, promptListVars, validationVars, formVars, improvementVars>>

\* what the API client and the AuthProvider leave alone
nonSessionVars == <<searchVars, themeVars, listVars, promptListVars, validationVars, formVars, improvementVars>>

\* what the prompt list page leaves alone
nonPromptListVars == <<searchVars, themeVars, listVars, sessionVars, validationVars, formVars, improvementVars>>

\* what the validation utilities leave alone
nonValidationVars == <<searchVars, themeVars, listVars, sessionVars, promptListVars, formVars, improvementVars>>

\* what the prompt form leaves alone
nonFormVars == <<searchVars, themeVars, listVars, sessionVars, promptListVars, validationVars,
                 improvementVars>>

\* what PromptImprovement leaves alone
nonImprovementVars == <<searchVars, themeVars, listVars, sessionVars, promptListVars,
                        validationVars, formVars>>

(***************************************************************************)
(* Bounds of the model.                                                    *)
(***************************************************************************)
\* number of distinct plain words the user may search for, besides "py"
NumWords == 9
\* search requests that may be awaiting their response at the same time
MaxInFlight == 2
\* queries of the sessions that use every operation
FewTerms == 2
\* times the user may pick a category from the suggestion list
MaxCategoryPicks == 1
\* search calls of a session that fail or come back without results
MaxFailures == 1
\* regular searches of a session started while another one is pending
MaxOverlaps == 1
\* custom themes the user may create in a session
MaxCustomThemes == 2
\* milliseconds the clock may advance (Date.now() names a custom theme)
MaxNow == 2

(***************************************************************************)
(* Strings.                                                                *)
(***************************************************************************)
Str_py == <<112, 121>>
Str_Py == <<80, 121>>
Str_blank == <<32, 32>>
Str_category_name == <<80, 121, 116>>

\* "category:"
Str_category_colon == <<99, 97, 116, 101, 103, 111, 114, 121, 58>>

\* the i-th query that asks for a category by name: "category:a", "category:b", ...
Word(i) == Str_category_colon \o <<96 + i>>

\* String.prototype.toLowerCase on ASCII letters
ToLowerCase(s) == [i \in 1..Len(s) |-> IF s[i] \in 65..90 THEN s[i] + 32 ELSE s[i]]

IsWhiteSpace(c) == c \in {9, 10, 11, 12, 13, 32}

RECURSIVE TrimStart(_)
TrimStart(s) == IF s # <<>> /\ IsWhiteSpace(Head(s)) THEN TrimStart(Tail(s)) ELSE s

RECURSIVE TrimEnd(_)
TrimEnd(s) == IF s # <<>> /\ IsWhiteSpace(s[Len(s)])
              THEN TrimEnd(SubSeq(s, 1, Len(s) - 1)) ELSE s

\* String.prototype.trim
Trim(s) == TrimEnd(TrimStart(s))

\* String.prototype.includes
Includes(s, t) == \E i \in 0..(Len(s) - Len(t)) : SubSeq(s, i + 1, i + Len(t)) = t

\* the queries of a session, in the order in which the user gets to them
TermList == <<Str_py, Str_Py>> \o [i \in 1..NumWords |-> Word(i)]

\* a query typed with blanks around it
Padded(term) == <<32>> \o term \o <<32>>

DefaultFilters == [category |-> "", author |-> "", dateRange |-> "", tags |-> <<>>,
                   sortBy |-> "relevance", minUsage |-> "", maxUsage |-> "",
                   dateFrom |-> "", dateTo |-> ""]

\* the categories the backend returns to fetchCategories
BackendCategories == <<[id |-> "c1", name |-> Str_category_name]>>

(***************************************************************************)
(* The search cache: a JavaScript Map, i.e. an insertion-ordered list of   *)
(* key/value pairs with unique keys.                                       *)
(***************************************************************************)
MapKeys(m) == [i \in 1..Len(m) |-> m[i].k]
MapHas(m, key) == \E i \in 1..Len(m) : m[i].k = key
MapGet(m, key) == (CHOOSE e \in {m[i] : i \in 1..Len(m)} : e.k = key).v
\* Map.prototype.set: an existing key keeps its position
MapSet(m, key, val) ==
    IF MapHas(m, key)
    THEN [i \in 1..Len(m) |-> IF m[i].k = key THEN [k |-> key, v |-> val] ELSE m[i]]
    ELSE Append(m, [k |-> key, v |-> val])
\* newCache.delete(newCache.keys().next().value)
MapDeleteFirst(m) == Tail(m)

CacheCap == 10

\* `${searchTerm.trim()}-${useSemantic}-${JSON.stringify(filters)}`
CacheKeyWithoutFilters(term, useSemantic, flt) == <<Trim(term), useSemantic, DefaultFilters>>

CacheKey(term, useSemantic, flt) == <<Trim(term), useSemantic, flt>>

\* newCache.set(cacheKey, results); if (newCache.size > 10) delete first key
StoreWithoutEviction(cache, key, res) == MapSet(cache, key, res)

StoreInCache(cache, key, res) ==
    LET newCache == MapSet(cache, key, res)
    IN  IF Len(newCache) > CacheCap THEN MapDeleteFirst(newCache) ELSE newCache

(***************************************************************************)
(* The backend's answer to a successful search for q (the trimmed query    *)
(* of the request's parameters): one record echoing the request, except    *)
(* that nothing matches the first plain word.                              *)
(***************************************************************************)
ServerResults(q, semantic, flt) ==
    IF q = Word(1) THEN <<>>
    ELSE <<[id |-> 1, q |-> q, semantic |-> semantic, category |-> flt.category]>>

Outcomes == {"ok", "nodata", "error"}

\* useSemanticSearch is state of the component that nothing ever sets
useSemanticSearch == FALSE

(***************************************************************************)
(* The debounce effect runs after every render in which searchTerm,        *)
(* filters or loading changed: it clears the pending timer and arms a new  *)
(* one, whose callback closes over that render's handleSearch and thereby  *)
(* over that render's searchCache.                                         *)
(***************************************************************************)
Armed(cache) == [armed |-> TRUE, cache |-> cache]
Disarmed == [armed |-> FALSE, cache |-> <<>>]

SearchPending == \E i \in 1..Len(inflight) : inflight[i].kind = "search"

CanIssue ==
    /\ Len(inflight) < MaxInFlight
    /\ SearchPending => incidents.overlaps < MaxOverlaps

RemoveAt(s, i) == SubSeq(s, 1, i - 1) \o SubSeq(s, i + 1, Len(s))

SearchInit ==
    /\ searchTerm = <<>>
    /\ filters = DefaultFilters
    /\ searchCache = <<>>
    /\ results = <<>>
    /\ loading = FALSE
    /\ semanticLoading = FALSE
    /\ categories = <<>>
    /\ suggestions = <<>>
    /\ debounceTimer = Armed(<<>>)
    /\ inflight = <<>>
    /\ picks = 0
    /\ incidents = [failures |-> 0, overlaps |-> 0]
    /\ event = [op |-> "mount", key |-> <<>>, auto |-> FALSE]

(***************************************************************************)
(* handleSearch(e, useSemantic), run by a render whose searchCache was     *)
(* cache.  tmr is the debounce timer as the caller leaves it and auto      *)
(* tells that the caller is the debounce timer; the state updates of the   *)
(* cache-hit path are batched into one render.                             *)
(***************************************************************************)
HandleSearch(cache, useSemantic, tmr, auto) ==
    LET cacheKey == CacheKey(searchTerm, useSemantic, filters)
    IN  IF Trim(searchTerm) = <<>>
        THEN /\ event' = [op |-> "rejected", key |-> <<>>, auto |-> auto]
             /\ debounceTimer' = tmr
             /\ UNCHANGED <<results, loading, inflight, incidents>>
        ELSE IF MapHas(cache, cacheKey)
        THEN /\ results' = MapGet(cache, cacheKey)
             /\ loading' = FALSE
             /\ debounceTimer' = IF loading THEN Armed(searchCache) ELSE tmr
             /\ event' = [op |-> "hit", key |-> cacheKey, auto |-> auto]
             /\ UNCHANGED <<inflight, incidents>>
        ELSE /\ loading' = TRUE
             /\ inflight' = Append(inflight,
                    [kind |-> "search", phase |-> "search", key |-> cacheKey,
                     cache |-> cache])
             /\ debounceTimer' = IF ~loading THEN Armed(searchCache) ELSE tmr
             /\ event' = [op |-> "miss", key |-> cacheKey, auto |-> auto]
             /\ incidents' = IF SearchPending THEN [incidents EXCEPT !.overlaps = @ + 1]
                                              ELSE incidents
             /\ UNCHANGED results

\* The texts of generateSuggestions and the double quote.
Str_search_open == <<83, 101, 97, 114, 99, 104, 58, 32, 34>>
Str_in_all_prompts == <<32, 105, 110, 32, 97, 108, 108, 32, 112, 114, 111, 109, 112, 116, 115>>
Str_with_ai == <<32, 119, 105, 116, 104, 32, 65, 73, 32, 115, 101, 109, 97, 110, 116, 105, 99, 32, 115, 101, 97, 114, 99, 104>>
Str_browse_prompts == <<66, 114, 111, 119, 115, 101, 32, 112, 114, 111, 109, 112, 116, 115, 32, 98, 121, 32, 99, 97, 116, 101, 103, 111, 114, 121>>
Str_search_by_tags == <<83, 101, 97, 114, 99, 104, 32, 98, 121, 32, 116, 97, 103, 115, 58, 32, 34>>
Str_advanced == <<65, 100, 118, 97, 110, 99, 101, 100, 32, 115, 101, 97, 114, 99, 104, 32, 119, 105, 116, 104, 32, 102, 105, 108, 116, 101, 114, 115>>
Str_browse_category == <<66, 114, 111, 119, 115, 101, 32, 99, 97, 116, 101, 103, 111, 114, 121, 58, 32, 34>>
Quote == 34

\* generateSuggestions(query): five fixed suggestions, then the categories whose
\* name contains the query, cut to six
GenerateSuggestions(query) ==
    IF Trim(query) = <<>> \/ Len(query) < 2 THEN <<>>
    ELSE LET mockSuggestions ==
                 << Str_search_open \o query \o <<Quote>> \o Str_in_all_prompts,
                    Str_search_open \o query \o <<Quote>> \o Str_with_ai,
                    Str_browse_prompts,
                    Str_search_by_tags \o query \o <<Quote>>,
                    Str_advanced >>
             matchingCategories == SelectSeq(categories,
                 LAMBDA cat : Includes(ToLowerCase(cat.name), ToLowerCase(query)))
             allSuggestions == mockSuggestions \o
                 [i \in 1..Len(matchingCategories) |->
                     Str_browse_category \o matchingCategories[i].name \o <<Quote>>]
         IN  SubSeq(allSuggestions, 1, IF Len(allSuggestions) < 6 THEN Len(allSuggestions) ELSE 6)

\* suggestion.match(/"([^"]+)"/)[1]: the first non-empty run of characters between
\* two double quotes (every suggestion with "category:" in it has one)
FirstQuoted(s) ==
    LET starts == {i \in 1..Len(s) : /\ s[i] = Quote
                                     /\ i + 1 <= Len(s) /\ s[i + 1] # Quote
                                     /\ \E j \in (i + 2)..Len(s) : s[j] = Quote}
        i0 == CHOOSE i \in starts : \A k \in starts : i <= k
        j0 == CHOOSE j \in (i0 + 2)..Len(s) :
                  s[j] = Quote /\ \A k \in (i0 + 2)..(j - 1) : s[k] # Quote
    IN  SubSeq(s, i0 + 1, j0 - 1)

(***************************************************************************)
(* What the user may type into the search box in a session that uses the   *)
(* first n queries of TermList: the first of them that comes after every   *)
(* cached or pending one (queries are tried in the order of the list), the *)
(* query of the oldest cache entry, "py" with blanks around it when "py"   *)
(* is one of the two, or blanks alone.                                     *)
(***************************************************************************)
KnownTerms == {searchCache[i].k[1] : i \in 1..Len(searchCache)}
              \cup {inflight[i].key[1] : i \in 1..Len(inflight)}

FreshTerm(n) ==
    LET unused == {i \in 1..n : \A j \in i..Len(TermList) : TermList[j] \notin KnownTerms}
    IN  IF unused = {} THEN {}
        ELSE {TermList[CHOOSE i \in unused : \A j \in unused : i <= j]}

OldestTerm == IF searchCache = <<>> THEN {} ELSE {searchCache[1].k[1]}

PlainChoices(n) == FreshTerm(n) \cup OldestTerm

TermChoices(n) ==
    PlainChoices(n) \cup {Padded(t) : t \in PlainChoices(n) \cap {Str_py}} \cup {Str_blank}

\* the input's onChange
TypeTerm(term) ==
    /\ term # searchTerm
    /\ searchTerm' = term
    /\ suggestions' = GenerateSuggestions(term)
    /\ debounceTimer' = Armed(searchCache)
    /\ event' = [op |-> "type", key |-> <<>>, auto |-> FALSE]
    /\ UNCHANGED <<filters, searchCache, results, loading, semanticLoading,
                   categories, inflight, picks, incidents>>
    /\ UNCHANGED nonSearchVars

\* fetchCategories resolves
FetchCategoriesDone ==
    /\ categories = <<>>
    /\ categories' = BackendCategories
    /\ event' = [op |-> "categories", key |-> <<>>, auto |-> FALSE]
    /\ UNCHANGED <<searchTerm, filters, searchCache, results, loading,
                   semanticLoading, suggestions, debounceTimer, inflight, picks, incidents>>
    /\ UNCHANGED nonSearchVars

(***************************************************************************)
(* handleSuggestionClick(suggestion), and what the click does as the click *)
(* of a button of the search form that has no type, i.e. a submit button.  *)
(* A click that finds its category sets the filter, empties the query and  *)
(* hides the list.  Hiding the list removes the button from the document   *)
(* before the browser acts on the click, so nothing is submitted.  A       *)
(* suggestion with "category:" whose quoted name is no category changes    *)
(* nothing: the button stays and the form is submitted, whatever loading   *)
(* is.  A suggestion without "category:" only hides the list; the list is  *)
(* shown again whenever the input gets the focus, so showSuggestions is    *)
(* not state here and such a click is no step.                             *)
(***************************************************************************)
ClickSuggestion(j) ==
    /\ j \in 1..Len(suggestions)
    /\ Includes(suggestions[j], Str_category_colon)
    /\ LET categoryName == FirstQuoted(suggestions[j])
           found == {i \in 1..Len(categories) : categories[i].name = categoryName}
       IN  IF found # {}
           THEN LET category == categories[CHOOSE i \in found : \A k \in found : i <= k]
                IN  /\ picks < MaxCategoryPicks
                    /\ picks' = picks + 1
                    /\ filters' = [filters EXCEPT !.category = category.id]
                    /\ searchTerm' = <<>>
                    /\ debounceTimer' = Armed(searchCache)
                    /\ event' = [op |-> "category", key |-> <<>>, auto |-> FALSE]
                    /\ UNCHANGED <<results, loading, inflight, incidents>>
           ELSE /\ CanIssue
                /\ HandleSearch(searchCache, useSemanticSearch, debounceTimer, FALSE)
                /\ UNCHANGED <<searchTerm, filters, picks>>
    /\ UNCHANGED <<searchCache, semanticLoading, categories, suggestions>>
    /\ UNCHANGED nonSearchVars

\* the form's onSubmit through the Search button, which is disabled while loading
SubmitSearch ==
    /\ ~loading
    /\ CanIssue
    /\ HandleSearch(searchCache, useSemanticSearch, debounceTimer, FALSE)
    /\ UNCHANGED <<searchTerm, filters, searchCache, semanticLoading, categories,
                   suggestions, picks>>
    /\ UNCHANGED nonSearchVars

\* the debounce timer fires, 500 ms after the effect armed it
DebounceFire ==
    /\ debounceTimer.armed
    /\ CanIssue
    /\ IF Trim(searchTerm) # <<>> /\ ~loading
       THEN HandleSearch(debounceTimer.cache, useSemanticSearch, Disarmed, TRUE)
       ELSE /\ debounceTimer' = Disarmed
            /\ event' = [op |-> "idle", key |-> <<>>, auto |-> FALSE]
            /\ UNCHANGED <<results, loading, inflight, incidents>>
    /\ UNCHANGED <<searchTerm, filters, searchCache, semanticLoading, categories,
                   suggestions, picks>>
    /\ UNCHANGED nonSearchVars

\* setSearchTerm(''); setResults([]); clearAllFilters(): the clear button of the
\* input, the Escape key and the "Clear search" link
ClearSearch ==
    /\ searchTerm # <<>>
    /\ searchTerm' = <<>>
    /\ results' = <<>>
    /\ filters' = DefaultFilters
    /\ debounceTimer' = Armed(searchCache)
    /\ event' = [op |-> "clear", key |-> <<>>, auto |-> FALSE]
    /\ UNCHANGED <<searchCache, loading, semanticLoading, categories, suggestions,
                   inflight, picks, incidents>>
    /\ UNCHANGED nonSearchVars

\* the AI Search button (disabled while semanticLoading or without a term) and
\* the "Try AI Search" link of the empty result view
HandleSemanticSearch ==
    /\ \/ ~semanticLoading /\ Trim(searchTerm) # <<>>
       \/ ~loading /\ results = <<>> /\ searchTerm # <<>>
    /\ CanIssue
    /\ IF Trim(searchTerm) = <<>>
       THEN /\ event' = [op |-> "rejected", key |-> <<>>, auto |-> FALSE]
            /\ UNCHANGED <<semanticLoading, inflight>>
       ELSE /\ semanticLoading' = TRUE
            /\ inflight' = Append(inflight,
                   [kind |-> "semantic", phase |-> "search",
                    key |-> CacheKey(searchTerm, TRUE, filters), cache |-> <<>>])
            /\ event' = [op |-> "aisearch", key |-> CacheKey(searchTerm, TRUE, filters), auto |-> FALSE]
    /\ UNCHANGED <<searchTerm, filters, searchCache, results, loading, categories,
                   suggestions, debounceTimer, picks, incidents>>
    /\ UNCHANGED nonSearchVars

\* the debounce effect after a render in which loading may have changed
AfterLoading(newLoading, newCache) ==
    IF newLoading # loading THEN Armed(newCache) ELSE debounceTimer

(***************************************************************************)
(* The response to the searchPrompts call of a handleSearch arrives: the   *)
(* rest of the try block up to the await of getRecommendations, or the     *)
(* catch block, and finally.  The handler still sees the searchCache of    *)
(* the render that started it.                                             *)
(***************************************************************************)
DroppedWhenSuperseded(outcome) == outcome = "ok" /\ Len(inflight) = 1

StoresWhateverArrives(outcome) == TRUE

\* response.data && response.data.results: the call resolved with a result list
\* (a rejected call never gets to the test)
HasResults(outcome) == outcome = "ok"

ResponseEvent(outcome) ==
    CASE outcome = "ok" -> "stored" [] outcome = "nodata" -> "nodata" [] outcome = "error" -> "failed"

SearchResponse(i, outcome) ==
    /\ i \in 1..Len(inflight)
    /\ inflight[i].kind = "search"
    /\ inflight[i].phase = "search"
    /\ outcome # "ok" => incidents.failures < MaxFailures
    /\ incidents' = IF outcome # "ok" THEN [incidents EXCEPT !.failures = @ + 1]
                                     ELSE incidents
    /\ LET req == inflight[i]
           res == ServerResults(req.key[1], req.key[2], req.key[3])
       IN  /\ event' = [op |-> ResponseEvent(outcome), key |-> req.key, auto |-> FALSE]
           /\ IF HasResults(outcome)
              THEN /\ results' = res
                   /\ searchCache' = StoreInCache(req.cache, req.key, res)
                   /\ IF Len(res) > 0 /\ outcome = "ok"
                      THEN /\ inflight' = [inflight EXCEPT ![i].phase = "recommendations"]
                           /\ UNCHANGED <<loading, debounceTimer>>
                      ELSE /\ inflight' = RemoveAt(inflight, i)
                           /\ loading' = FALSE
                           /\ debounceTimer' = AfterLoading(FALSE, searchCache')
              ELSE /\ results' = <<>>
                   /\ inflight' = RemoveAt(inflight, i)
                   /\ loading' = FALSE
                   /\ debounceTimer' = AfterLoading(FALSE, searchCache)
                   /\ UNCHANGED searchCache
    /\ UNCHANGED <<searchTerm, filters, semanticLoading, categories, suggestions,
                   picks>>
    /\ UNCHANGED nonSearchVars

\* getRecommendations settles (it catches its own errors), then finally
RecommendationsDone(i) ==
    /\ i \in 1..Len(inflight)
    /\ inflight[i].kind = "search"
    /\ inflight[i].phase = "recommendations"
    /\ inflight' = RemoveAt(inflight, i)
    /\ loading' = FALSE
    /\ debounceTimer' = AfterLoading(FALSE, searchCache)
    /\ event' = [op |-> "done", key |-> inflight[i].key, auto |-> FALSE]
    /\ UNCHANGED <<searchTerm, filters, searchCache, results, semanticLoading,
                   categories, suggestions, picks, incidents>>
    /\ UNCHANGED nonSearchVars

\* the response to the searchPrompts call of handleSemanticSearch arrives
SemanticResponse(i, outcome) ==
    /\ i \in 1..Len(inflight)
    /\ inflight[i].kind = "semantic"
    /\ outcome # "ok" => incidents.failures < MaxFailures
    /\ incidents' = IF outcome # "ok" THEN [incidents EXCEPT !.failures = @ + 1]
                                     ELSE incidents
    /\ LET req == inflight[i]
       IN  /\ results' = CASE outcome = "ok" ->
                                ServerResults(req.key[1], req.key[2], req.key[3])
                          [] outcome = "nodata" -> <<>>
                          [] outcome = "error" -> results
           /\ event' = [op |-> IF outcome = "error" THEN "aifailed" ELSE "aidone",
                        key |-> req.key, auto |-> FALSE]
    /\ inflight' = RemoveAt(inflight, i)
    /\ semanticLoading' = FALSE
    /\ UNCHANGED <<searchTerm, filters, searchCache, loading, categories,
                   suggestions, debounceTimer, picks>>
    /\ UNCHANGED nonSearchVars

\* sessions with every operation of the component, over a few queries
SearchNext ==
    \/ \E term \in TermChoices(FewTerms) : TypeTerm(term)
    \/ FetchCategoriesDone
    \/ \E j \in 1..6 : ClickSuggestion(j)
    \/ SubmitSearch
    \/ DebounceFire
    \/ ClearSearch
    \/ HandleSemanticSearch
    \/ \E i \in 1..MaxInFlight, outcome \in Outcomes : SearchResponse(i, outcome)
    \/ \E i \in 1..MaxInFlight : RecommendationsDone(i)
    \/ \E i \in 1..MaxInFlight, outcome \in Outcomes : SemanticResponse(i, outcome)

\* sessions of regular searches over enough queries to fill the cache
CacheNext ==
    \/ \E term \in PlainChoices(Len(TermList)) : TypeTerm(term)
    \/ ClickSuggestion(1)
    \/ SubmitSearch
    \/ DebounceFire
    \/ \E i \in 1..MaxInFlight, outcome \in {"ok", "error"} : SearchResponse(i, outcome)
    \/ \E i \in 1..MaxInFlight : RecommendationsDone(i)


(***************************************************************************)
(* The theme provider (hooks/useTheme.js).  Colour strings are sequences   *)
(* of one-character strings, so that parsing and formatting are computed.  *)
(***************************************************************************)
Shades == <<50, 100, 200, 300, 400, 500, 600, 700, 800, 900>>

ShadeSet == {Shades[i] : i \in 1..Len(Shades)}

\* an object literal with the ten shade keys, from its values in key order
Palette(hexes) == [shade \in ShadeSet |-> hexes[CHOOSE i \in 1..Len(Shades) : Shades[i] = shade]]

\* the i-th character of a string
CharAt(str, i) == SubSeq(str, i, i)

UpperCaseLetters == "ABCDEFGHIJKLMNOPQRSTUVWXYZ"

LowerCaseLetters == "abcdefghijklmnopqrstuvwxyz"

LowerCaseChar(c) ==
    IF \E i \in 1..26 : CharAt(UpperCaseLetters, i) = c
    THEN CharAt(LowerCaseLetters, CHOOSE i \in 1..26 : CharAt(UpperCaseLetters, i) = c)
    ELSE c

\* toLowerCase and trim of a colour string
RECURSIVE StringToLowerCase(_)
StringToLowerCase(str) ==
    IF str = "" THEN "" ELSE LowerCaseChar(Head(str)) \o StringToLowerCase(Tail(str))

RECURSIVE StringTrim(_)
StringTrim(str) ==
    IF str = "" THEN str
    ELSE IF Head(str) = " " THEN StringTrim(Tail(str))
    ELSE IF CharAt(str, Len(str)) = " " THEN StringTrim(SubSeq(str, 1, Len(str) - 1))
    ELSE str

HexDigits == "0123456789abcdef"

IsHexDigit(c) == \E i \in 1..16 : CharAt(HexDigits, i) = c

\* parseIntFromHex of one digit
HexValue(c) == (CHOOSE i \in 1..16 : CharAt(HexDigits, i) = c) - 1

Max3(a, b, c) == IF a >= b /\ a >= c THEN a ELSE IF b >= c THEN b ELSE c

Min3(a, b, c) == IF a <= b /\ a <= c THEN a ELSE IF b <= c THEN b ELSE c

(***************************************************************************)
(* new TinyColor(baseColor) for a string: trimmed and lowercased, then a   *)
(* hex notation of 3, 4, 6 or 8 digits with or without "#" (the alpha      *)
(* digits play no part in toHexString); anything else leaves black with    *)
(* isValid false.  Colour names and functional notations are not among the *)
(* inputs here.  A colour made from a string has integer channels.         *)
(***************************************************************************)
TinyColor(baseColor) ==
    LET str == StringToLowerCase(StringTrim(baseColor))
        digits == IF str # "" /\ Head(str) = "#" THEN Tail(str) ELSE str
        allHex == \A i \in 1..Len(digits) : IsHexDigit(CharAt(digits, i))
        v(i) == HexValue(CharAt(digits, i))
    IN  IF allHex /\ Len(digits) \in {6, 8}
        THEN [form |-> "rgb", isValid |-> TRUE,
              r |-> 16 * v(1) + v(2), g |-> 16 * v(3) + v(4), b |-> 16 * v(5) + v(6)]
        ELSE IF allHex /\ Len(digits) \in {3, 4}
        THEN [form |-> "rgb", isValid |-> TRUE,
              r |-> 17 * v(1), g |-> 17 * v(2), b |-> 17 * v(3)]
        ELSE [form |-> "rgb", isValid |-> FALSE, r |-> 0, g |-> 0, b |-> 0]

(***************************************************************************)
(* toHsl().  The hue is kept as the place of each channel between the      *)
(* lowest and the highest one, f[c] / fd (fd = 0 for a grey), which is     *)
(* what hslToRgb makes of it; saturation and lightness are the fractions   *)
(* sn / sd and ln / ld.                                                    *)
(***************************************************************************)
ToHsl(color) ==
    IF color.form = "rgb"
    THEN LET max == Max3(color.r, color.g, color.b)
             min == Min3(color.r, color.g, color.b)
             d == max - min
         IN  [f |-> <<color.r - min, color.g - min, color.b - min>>, fd |-> d,
              sn |-> d,
              sd |-> IF d = 0 THEN 1 ELSE IF max + min > 255 THEN 510 - max - min ELSE max + min,
              ln |-> max + min, ld |-> 510]
    ELSE IF color.fd = 0 \/ color.ss = 0 \/ color.ls = 0 \/ color.ls = 10000
    THEN [f |-> <<0, 0, 0>>, fd |-> 0, sn |-> 0, sd |-> 1, ln |-> color.ls, ld |-> 10000]
    ELSE [f |-> color.f, fd |-> color.fd, sn |-> color.ss, sd |-> 10000,
          ln |-> color.ls, ld |-> 10000]

Clamp(n, lo, hi) == IF n < lo THEN lo ELSE IF n > hi THEN hi ELSE n

(***************************************************************************)
(* new TinyColor(hsl): saturation and lightness go through                 *)
(* convertToPercentage and bound01, which cut them to hundredths of a      *)
(* percent (ss and ls, in 1/10000).  ls is the lightness already in that   *)
(* unit.  Arithmetic is exact here, where the library uses floating point. *)
(***************************************************************************)
FromHsl(hsl, f, ls) ==
    [form |-> "hsl", isValid |-> TRUE, f |-> f, fd |-> hsl.fd,
     ss |-> (10000 * hsl.sn) \div hsl.sd, ls |-> ls]

LightenDownwards(color, amount) ==
    LET hsl == ToHsl(color)
    IN  FromHsl(hsl, hsl.f, Clamp((10000 * hsl.ln) \div hsl.ld - 100 * amount, 0, 10000))

\* lighten(amount): hsl.l += amount / 100; hsl.l = clamp01(hsl.l)
Lighten(color, amount) ==
    LET hsl == ToHsl(color)
    IN  FromHsl(hsl, hsl.f, Clamp((10000 * hsl.ln) \div hsl.ld + 100 * amount, 0, 10000))

\* darken(amount): hsl.l -= amount / 100; hsl.l = clamp01(hsl.l)
Darken(color, amount) ==
    LET hsl == ToHsl(color)
    IN  FromHsl(hsl, hsl.f, Clamp((10000 * hsl.ln) \div hsl.ld - 100 * amount, 0, 10000))

\* complement(): hsl.h = (hsl.h + 180) % 360, which mirrors the place of each
\* channel between the lowest and the highest
Complement(color) ==
    LET hsl == ToHsl(color)
    IN  FromHsl(hsl, [c \in 1..3 |-> hsl.fd - hsl.f[c]], (10000 * hsl.ln) \div hsl.ld)

(***************************************************************************)
(* Math.round of channel c (1, 2, 3 for r, g, b) as toHexString takes it:  *)
(* for a colour made from hsl, 255 * (l + s * min(l, 1 - l) * (2f - 1)),   *)
(* rounded half up; the sum is split so that it stays in 32 bits.          *)
(***************************************************************************)
RoundedChannel(color, c) ==
    IF color.form = "rgb" THEN <<color.r, color.g, color.b>>[c]
    ELSE IF color.fd = 0 \/ color.ss = 0
    THEN (255 * color.ls + 5000) \div 10000
    ELSE LET k == IF color.ls < 5000 THEN color.ls ELSE 10000 - color.ls
             t == color.ss * k
             g == 2 * color.f[c] - color.fd
             p == 255 * color.ls * color.fd + 255 * g * (t \div 10000) + 5000 * color.fd
             q == 255 * g * (t % 10000)
         IN  Clamp((p + (q \div 10000)) \div (10000 * color.fd), 0, 255)

\* pad2(n.toString(16))
Pad2Hex(n) == CharAt(HexDigits, (n \div 16) + 1) \o CharAt(HexDigits, (n % 16) + 1)

ToHexString(color) ==
    "#" \o Pad2Hex(RoundedChannel(color, 1)) \o Pad2Hex(RoundedChannel(color, 2))
            \o Pad2Hex(RoundedChannel(color, 3))

\* a neutral palette that is not the table of the predefined themes
NeutralOfItsOwn ==
    Palette(<< "#ffffff", "#f5f5f5",
               "#e5e5e5", "#d4d4d4",
               "#a3a3a3", "#737373",
               "#525252", "#404040",
               "#262626", "#000000" >>)

\* The palettes that generateThemeFromColor gives to every custom theme.
Custom_success ==
    Palette(<< "#f0fdf4", "#dcfce7",
               "#bbf7d0", "#86efac",
               "#4ade80", "#22c55e",
               "#16a34a", "#15803d",
               "#166534", "#14532d" >>)

Custom_warning ==
    Palette(<< "#fff7ed", "#ffedd5",
               "#fed7aa", "#fdba74",
               "#fb923c", "#f97316",
               "#ea580c", "#c2410c",
               "#9a3412", "#7c2d12" >>)

Custom_error ==
    Palette(<< "#fef2f2", "#fee2e2",
               "#fecaca", "#fca5a5",
               "#f87171", "#ef4444",
               "#dc2626", "#b91c1c",
               "#991b1b", "#7f1d1d" >>)

Custom_info ==
    Palette(<< "#f0f9ff", "#e0f2fe",
               "#bae6fd", "#7dd3fc",
               "#38bdf8", "#0ea5e9",
               "#0284c7", "#0369a1",
               "#075985", "#0c4a6e" >>)

Custom_neutral ==
    Palette(<< "#fafafa", "#f5f5f5",
               "#e5e5e5", "#d4d4d4",
               "#a3a3a3", "#737373",
               "#525252", "#404040",
               "#262626", "#171717" >>)

PaletteOfSteps(color, steps) ==
    Palette([i \in 1..10 |->
        ToHexString(IF steps[i] > 0 THEN Lighten(color, steps[i])
                    ELSE IF steps[i] < 0 THEN Darken(color, 0 - steps[i])
                    ELSE color)])

SemanticPalettes(primary, secondary) ==
    [name |-> "Custom",
     colors |-> [primary |-> primary, secondary |-> secondary,
                 success |-> Custom_success, warning |-> Custom_warning,
                 error |-> Custom_error, info |-> Custom_info, neutral |-> Custom_neutral]]

GenerateWithEvenPrimarySteps(baseColor) ==
    SemanticPalettes(
        PaletteOfSteps(TinyColor(baseColor), <<50, 40, 30, 20, 10, 0, -10, -20, -30, -40>>),
        PaletteOfSteps(Complement(TinyColor(baseColor)),
                       <<40, 35, 25, 15, 5, 0, -5, -15, -25, -35>>))

GenerateWithPrimarySteps(baseColor) ==
    SemanticPalettes(
        PaletteOfSteps(TinyColor(baseColor), <<45, 40, 30, 20, 10, 0, -10, -20, -30, -40>>),
        PaletteOfSteps(Complement(TinyColor(baseColor)),
                       <<45, 40, 30, 20, 10, 0, -10, -20, -30, -40>>))

\* a generation that reads the clock: the later, the lighter the lightest shade
GenerateByTheClock(baseColor) ==
    SemanticPalettes(
        PaletteOfSteps(TinyColor(baseColor),
                       <<45 + now, 40, 30, 20, 10, 0, -10, -20, -30, -40>>),
        PaletteOfSteps(Complement(TinyColor(baseColor)),
                       <<40, 35, 25, 15, 5, 0, -5, -15, -25, -35>>))

GenerateThemeFromColor(baseColor) ==
    LET color == TinyColor(baseColor)
    IN  [name |-> "Custom",
         colors |-> [
            primary |-> Palette(<<
                ToHexString(Lighten(color, 45)),
                ToHexString(Lighten(color, 40)),
                ToHexString(Lighten(color, 30)),
                ToHexString(Lighten(color, 20)),
                ToHexString(Lighten(color, 10)),
                ToHexString(color),
                ToHexString(Darken(color, 10)),
                ToHexString(Darken(color, 20)),
                ToHexString(Darken(color, 30)),
                ToHexString(Darken(color, 40)) >>),
            secondary |-> Palette(<<
                ToHexString(Lighten(Complement(color), 40)),
                ToHexString(Lighten(Complement(color), 35)),
                ToHexString(Lighten(Complement(color), 25)),
                ToHexString(Lighten(Complement(color), 15)),
                ToHexString(Lighten(Complement(color), 5)),
                ToHexString(Complement(color)),
                ToHexString(Darken(Complement(color), 5)),
                ToHexString(Darken(Complement(color), 15)),
                ToHexString(Darken(Complement(color), 25)),
                ToHexString(Darken(Complement(color), 35)) >>),
            success |-> Custom_success,
            warning |-> Custom_warning,
            error |-> Custom_error,
            info |-> Custom_info,
            neutral |-> Custom_neutral ]]

Predefined_blue ==
    [name |-> "Ocean Blue",
     baseColor |-> "#3b82f6",
     colors |-> [
        primary |-> Palette(<< "#eff6ff", "#dbeafe",
                          "#bfdbfe", "#93c5fd",
                          "#60a5fa", "#3b82f6",
                          "#2563eb", "#1d4ed8",
                          "#1e40af", "#1e3a8a" >>),
        secondary |-> Palette(<< "#f0f9ff", "#e0f2fe",
                            "#bae6fd", "#7dd3fc",
                            "#38bdf8", "#0ea5e9",
                            "#0284c7", "#0369a1",
                            "#075985", "#0c4a6e" >>),
        success |-> Palette(<< "#f0fdf4", "#dcfce7",
                          "#bbf7d0", "#86efac",
                          "#4ade80", "#22c55e",
                          "#16a34a", "#15803d",
                          "#166534", "#14532d" >>),
        warning |-> Palette(<< "#fff7ed", "#ffedd5",
                          "#fed7aa", "#fdba74",
                          "#fb923c", "#f97316",
                          "#ea580c", "#c2410c",
                          "#9a3412", "#7c2d12" >>),
        error |-> Palette(<< "#fef2f2", "#fee2e2",
                        "#fecaca", "#fca5a5",
                        "#f87171", "#ef4444",
                        "#dc2626", "#b91c1c",
                        "#991b1b", "#7f1d1d" >>),
        info |-> Palette(<< "#f0f9ff", "#e0f2fe",
                       "#bae6fd", "#7dd3fc",
                       "#38bdf8", "#0ea5e9",
                       "#0284c7", "#0369a1",
                       "#075985", "#0c4a6e" >>),
        neutral |-> Palette(<< "#fafafa", "#f5f5f5",
                          "#e5e5e5", "#d4d4d4",
                          "#a3a3a3", "#737373",
                          "#525252", "#404040",
                          "#262626", "#171717" >>) ]]

Predefined_green ==
    [name |-> "Forest Green",
     baseColor |-> "#22c55e",
     colors |-> [
        primary |-> Palette(<< "#f0fdf4", "#dcfce7",
                          "#bbf7d0", "#86efac",
                          "#4ade80", "#22c55e",
                          "#16a34a", "#15803d",
                          "#166534", "#14532d" >>),
        secondary |-> Palette(<< "#f0f9ff", "#e0f2fe",
                            "#bae6fd", "#7dd3fc",
                            "#38bdf8", "#0ea5e9",
                            "#0284c7", "#0369a1",
                            "#075985", "#0c4a6e" >>),
        success |-> Palette(<< "#f0fdf4", "#dcfce7",
                          "#bbf7d0", "#86efac",
                          "#4ade80", "#22c55e",
                          "#16a34a", "#15803d",
                          "#166534", "#14532d" >>),
        warning |-> Palette(<< "#fff7ed", "#ffedd5",
                          "#fed7aa", "#fdba74",
                          "#fb923c", "#f97316",
                          "#ea580c", "#c2410c",
                          "#9a3412", "#7c2d12" >>),
        error |-> Palette(<< "#fef2f2", "#fee2e2",
                        "#fecaca", "#fca5a5",
                        "#f87171", "#ef4444",
                        "#dc2626", "#b91c1c",
                        "#991b1b", "#7f1d1d" >>),
        info |-> Palette(<< "#f0f9ff", "#e0f2fe",
                       "#bae6fd", "#7dd3fc",
                       "#38bdf8", "#0ea5e9",
                       "#0284c7", "#0369a1",
                       "#075985", "#0c4a6e" >>),
        neutral |-> Palette(<< "#fafafa", "#f5f5f5",
                          "#e5e5e5", "#d4d4d4",
                          "#a3a3a3", "#737373",
                          "#525252", "#404040",
                          "#262626", "#171717" >>) ]]

Predefined_purple ==
    [name |-> "Royal Purple",
     baseColor |-> "#a855f7",
     colors |-> [
        primary |-> Palette(<< "#faf5ff", "#f3e8ff",
                          "#e9d5ff", "#d8b4fe",
                          "#c084fc", "#a855f7",
                          "#9333ea", "#7c3aed",
                          "#6b21a8", "#581c87" >>),
        secondary |-> Palette(<< "#fefce8", "#fef9c3",
                            "#fef08a", "#fde047",
                            "#facc15", "#eab308",
                            "#ca8a04", "#a16207",
                            "#854d0e", "#713f12" >>),
        success |-> Palette(<< "#f0fdf4", "#dcfce7",
                          "#bbf7d0", "#86efac",
                          "#4ade80", "#22c55e",
                          "#16a34a", "#15803d",
                          "#166534", "#14532d" >>),
        warning |-> Palette(<< "#fff7ed", "#ffedd5",
                          "#fed7aa", "#fdba74",
                          "#fb923c", "#f97316",
                          "#ea580c", "#c2410c",
                          "#9a3412", "#7c2d12" >>),
        error |-> Palette(<< "#fef2f2", "#fee2e2",
                        "#fecaca", "#fca5a5",
                        "#f87171", "#ef4444",
                        "#dc2626", "#b91c1c",
                        "#991b1b", "#7f1d1d" >>),
        info |-> Palette(<< "#f0f9ff", "#e0f2fe",
                       "#bae6fd", "#7dd3fc",
                       "#38bdf8", "#0ea5e9",
                       "#0284c7", "#0369a1",
                       "#075985", "#0c4a6e" >>),
        neutral |-> Palette(<< "#fafafa", "#f5f5f5",
                          "#e5e5e5", "#d4d4d4",
                          "#a3a3a3", "#737373",
                          "#525252", "#404040",
                          "#262626", "#171717" >>) ]]

PredefinedThemes ==
    [key \in {"blue", "green", "purple"} |->
        CASE key = "blue" -> Predefined_blue
          [] key = "green" -> Predefined_green
          [] key = "purple" -> Predefined_purple]

(***************************************************************************)
(* What the user enters as the base colour of a custom theme: the colour   *)
(* input gives "#rrggbb", the text field next to it any text.              *)
(***************************************************************************)
BaseColors ==
    { "#3b82f6",
      "#A855F7",
      " #22c55e ",
      "#abc",
      "112233",
      "#fafafa",
      "#0a0a0a",
      "#e0e0ff",
      "zzz",
      "",
      "#12345" }

PaletteNames == {"primary", "secondary", "success", "warning", "error", "info", "neutral"}

\* `--color-${paletteName}-${key}`
PropertyName(paletteName, shade) == "--color-" \o paletteName \o "-" \o ToString(shade)

\* every property name with its palette and shade
Properties ==
    {[name |-> PropertyName(paletteName, shade), paletteName |-> paletteName, shade |-> shade] :
        paletteName \in PaletteNames, shade \in ShadeSet}

ApplyMissingOnly(style, theme) ==
    LET set == {p \in Properties : p.paletteName \in DOMAIN theme.colors}
    IN  [property \in DOMAIN style \cup {p.name : p \in set} |->
            IF property \in DOMAIN style
            THEN style[property]
            ELSE LET p == CHOOSE p \in set : p.name = property
                 IN  theme.colors[p.paletteName][p.shade]]

\* the effect that applies a theme: a custom property of the root element per
\* palette and shade of the theme
ApplyTheme(style, theme) ==
    LET set == {p \in Properties : p.paletteName \in DOMAIN theme.colors}
    IN  [property \in DOMAIN style \cup {p.name : p \in set} |->
            IF \E p \in set : p.name = property
            THEN LET p == CHOOSE p \in set : p.name = property
                 IN  theme.colors[p.paletteName][p.shade]
            ELSE style[property]]

EmptyStyle == [property \in {} |-> ""]

\* JSON.stringify and JSON.parse of the dark mode flag
StringifyBool(flag) == IF flag THEN "true" ELSE "false"

ParseBool(str) == str = "true"

CustomCount == Cardinality(DOMAIN themes \ DOMAIN PredefinedThemes)

\* the initial states of useState when the provider mounts over a localStorage
StartTheme(storage) ==
    LET saved == IF "theme" \in DOMAIN storage THEN storage["theme"] ELSE ""
    IN  IF saved # "" /\ saved \in DOMAIN PredefinedThemes THEN saved ELSE "blue"

StartsLight(storage) == FALSE

StartDarkMode(storage) ==
    LET saved == IF "darkMode" \in DOMAIN storage THEN storage["darkMode"] ELSE ""
    IN  IF saved # "" THEN ParseBool(saved) ELSE FALSE

\* what the two persistence effects leave in localStorage
Persisted(theme, dark) ==
    [item \in {"theme", "darkMode"} |-> IF item = "theme" THEN theme ELSE StringifyBool(dark)]

EmptyStorage == [item \in {} |-> ""]

\* the provider mounts in a browser that has nothing stored; the effects have run
ThemeInit ==
    /\ themes = PredefinedThemes
    /\ currentTheme = StartTheme(EmptyStorage)
    /\ darkMode = StartDarkMode(EmptyStorage)
    /\ localStorage = Persisted(StartTheme(EmptyStorage), StartDarkMode(EmptyStorage))
    /\ rootStyle = ApplyTheme(EmptyStyle, PredefinedThemes[StartTheme(EmptyStorage)])
    /\ darkClass = StartDarkMode(EmptyStorage)
    /\ now = 1
    /\ themeEvent = [op |-> "mount", baseColor |-> "", key |-> ""]

\* createCustomTheme(baseColor), called by the colour picker's Apply
CreateCustomTheme(baseColor) ==
    LET customTheme == GenerateThemeFromColor(baseColor)
        themeKey == "custom-" \o ToString(now)
    IN  /\ themeKey \in DOMAIN themes \/ CustomCount < MaxCustomThemes
        /\ themes' = [key \in DOMAIN themes \cup {themeKey} |->
                         IF key = themeKey THEN customTheme ELSE themes[key]]
        /\ currentTheme' = themeKey
        /\ localStorage' = [localStorage EXCEPT !["theme"] = themeKey]
        /\ rootStyle' = ApplyTheme(rootStyle, customTheme)
        /\ themeEvent' = [op |-> "create", baseColor |-> baseColor, key |-> themeKey]
        /\ UNCHANGED <<darkMode, darkClass, now>>
        /\ UNCHANGED nonThemeVars

ChangeToAnyName(themeName) ==
    /\ themeName # currentTheme
    /\ currentTheme' = themeName
    /\ localStorage' = [localStorage EXCEPT !["theme"] = themeName]
    /\ themeEvent' = [op |-> "change", baseColor |-> "", key |-> themeName]
    /\ UNCHANGED <<themes, darkMode, darkClass, now, rootStyle>>
    /\ UNCHANGED nonThemeVars

\* changeTheme(themeName)
ChangeTheme(themeName) ==
    /\ themeName # currentTheme
    /\ IF themeName \in DOMAIN themes
       THEN /\ currentTheme' = themeName
            /\ localStorage' = [localStorage EXCEPT !["theme"] = themeName]
            /\ rootStyle' = ApplyTheme(rootStyle, themes[themeName])
       ELSE UNCHANGED <<currentTheme, localStorage, rootStyle>>
    /\ themeEvent' = [op |-> "change", baseColor |-> "", key |-> themeName]
    /\ UNCHANGED <<themes, darkMode, darkClass, now>>
    /\ UNCHANGED nonThemeVars

\* toggleDarkMode()
ToggleDarkMode ==
    /\ darkMode' = ~darkMode
    /\ localStorage' = [localStorage EXCEPT !["darkMode"] = StringifyBool(~darkMode)]
    /\ darkClass' = ~darkMode
    /\ themeEvent' = [op |-> "toggle", baseColor |-> "", key |-> ""]
    /\ UNCHANGED <<themes, currentTheme, rootStyle, now>>
    /\ UNCHANGED nonThemeVars

\* the page is loaded again: the provider mounts over what localStorage holds
Reload ==
    /\ themes' = PredefinedThemes
    /\ currentTheme' = StartTheme(localStorage)
    /\ darkMode' = StartDarkMode(localStorage)
    /\ localStorage' = Persisted(StartTheme(localStorage), StartDarkMode(localStorage))
    /\ rootStyle' = ApplyTheme(EmptyStyle, PredefinedThemes[StartTheme(localStorage)])
    /\ darkClass' = StartDarkMode(localStorage)
    /\ themeEvent' = [op |-> "reload", baseColor |-> "", key |-> ""]
    /\ UNCHANGED now
    /\ UNCHANGED nonThemeVars

\* Date.now() moves on
Tick ==
    /\ now < MaxNow
    /\ now' = now + 1
    /\ themeEvent' = [op |-> "tick", baseColor |-> "", key |-> ""]
    /\ UNCHANGED <<themes, currentTheme, darkMode, localStorage, rootStyle, darkClass>>
    /\ UNCHANGED nonThemeVars

ThemeNext ==
    \/ \E baseColor \in BaseColors : CreateCustomTheme(baseColor)
    \/ \E themeName \in DOMAIN themes \cup {"none"} : ChangeTheme(themeName)
    \/ ToggleDarkMode
    \/ Reload
    \/ Tick

(***************************************************************************)
(* The result list of the Search component: getRelevanceScore and the      *)
(* sortedResults that every render computes from results, filters.sortBy   *)
(* and searchTerm.                                                         *)
(***************************************************************************)
\* records of a rendering's results
MaxListLen == 4

\* the prompts that the backend may return
\* 1: "Python tips" / "about loops" / "use for", used 5 times, created 2024-03-05T10:00:00Z
\* 2: "Loops" / "in PYTHON" / "while", used 5 times, created 2024-03-05T10:00:00Z
\* 3: "Notes" / "misc" / "python here", used 9 times, created 2023-12-31T23:59:59Z
\* 4: "Py and py" / "py" / "py", used 0 times, created 2024-02-29T00:00:00Z
\* 5: "Other" / "none" / "none", used 2 times, created 2024-03-01T00:00:00Z
PromptPool ==
    <<[id |-> 1, title |-> <<80, 121, 116, 104, 111, 110, 32, 116, 105, 112, 115>>,
       description |-> <<97, 98, 111, 117, 116, 32, 108, 111, 111, 112, 115>>,
       content |-> <<117, 115, 101, 32, 102, 111, 114>>,
       usage_count |-> 5,
       created_at |-> <<50, 48, 50, 52, 45, 48, 51, 45, 48, 53, 84, 49, 48, 58, 48, 48, 58, 48, 48, 90>>],
      [id |-> 2, title |-> <<76, 111, 111, 112, 115>>,
       description |-> <<105, 110, 32, 80, 89, 84, 72, 79, 78>>,
       content |-> <<119, 104, 105, 108, 101>>,
       usage_count |-> 5,
       created_at |-> <<50, 48, 50, 52, 45, 48, 51, 45, 48, 53, 84, 49, 48, 58, 48, 48, 58, 48, 48, 90>>],
      [id |-> 3, title |-> <<78, 111, 116, 101, 115>>,
       description |-> <<109, 105, 115, 99>>,
       content |-> <<112, 121, 116, 104, 111, 110, 32, 104, 101, 114, 101>>,
       usage_count |-> 9,
       created_at |-> <<50, 48, 50, 51, 45, 49, 50, 45, 51, 49, 84, 50, 51, 58, 53, 57, 58, 53, 57, 90>>],
      [id |-> 4, title |-> <<80, 121, 32, 97, 110, 100, 32, 112, 121>>,
       description |-> <<112, 121>>,
       content |-> <<112, 121>>,
       usage_count |-> 0,
       created_at |-> <<50, 48, 50, 52, 45, 48, 50, 45, 50, 57, 84, 48, 48, 58, 48, 48, 58, 48, 48, 90>>],
      [id |-> 5, title |-> <<79, 116, 104, 101, 114>>,
       description |-> <<110, 111, 110, 101>>,
       content |-> <<110, 111, 110, 101>>,
       usage_count |-> 2,
       created_at |-> <<50, 48, 50, 52, 45, 48, 51, 45, 48, 49, 84, 48, 48, 58, 48, 48, 58, 48, 48, 90>>] >>

\* "python" and "PY"
Str_python == <<112, 121, 116, 104, 111, 110>>
Str_PY == <<80, 89>>

\* a score that compares the texts as they are written
ScoreCaseSensitive(prompt, term) ==
    (IF Includes(prompt.title, term) THEN 3 ELSE 0)
        + (IF Includes(prompt.description, term) THEN 2 ELSE 0)
        + (IF Includes(prompt.content, term) THEN 1 ELSE 0)

\* getRelevanceScore(prompt), over the searchTerm of the render
GetRelevanceScore(prompt, term) ==
    LET searchLower == ToLowerCase(term)
        titleScore == IF Includes(ToLowerCase(prompt.title), searchLower) THEN 3 ELSE 0
        descScore == IF Includes(ToLowerCase(prompt.description), searchLower) THEN 2 ELSE 0
        contentScore == IF Includes(ToLowerCase(prompt.content), searchLower) THEN 1 ELSE 0
    IN  titleScore + descScore + contentScore

\* the number that a run of decimal digits writes
RECURSIVE DigitsValue(_)
DigitsValue(s) ==
    IF s = <<>> THEN 0 ELSE 10 * DigitsValue(SubSeq(s, 1, Len(s) - 1)) + (s[Len(s)] - 48)

IsLeapYear(y) == (y % 4 = 0 /\ y % 100 # 0) \/ y % 400 = 0

DaysInMonth(y, m) ==
    IF m = 2 THEN (IF IsLeapYear(y) THEN 29 ELSE 28)
    ELSE IF m \in {4, 6, 9, 11} THEN 30 ELSE 31

RECURSIVE DaysBeforeMonth(_, _)
DaysBeforeMonth(y, m) ==
    IF m = 1 THEN 0 ELSE DaysBeforeMonth(y, m - 1) + DaysInMonth(y, m - 1)

\* leap days of the years 1970 .. y - 1
LeapDaysBefore(y) == ((y - 1) \div 4 - (y - 1) \div 100 + (y - 1) \div 400) - 477

\* new Date("yyyy-mm-ddThh:mm:ssZ") as a number, in seconds and not in
\* milliseconds so that it stays within 32 bits
DateValue(str) ==
    LET y == DigitsValue(SubSeq(str, 1, 4))
        m == DigitsValue(SubSeq(str, 6, 7))
        d == DigitsValue(SubSeq(str, 9, 10))
        days == 365 * (y - 1970) + LeapDaysBefore(y) + DaysBeforeMonth(y, m) + (d - 1)
    IN  86400 * days + 3600 * DigitsValue(SubSeq(str, 12, 13))
            + 60 * DigitsValue(SubSeq(str, 15, 16)) + DigitsValue(SubSeq(str, 18, 19))

\* a comparison that takes the records in ascending order of usage
CompareAscending(a, b, sortBy, term) ==
    IF sortBy = "relevance" THEN GetRelevanceScore(b, term) - GetRelevanceScore(a, term)
    ELSE IF sortBy = "usage" THEN a.usage_count - b.usage_count
    ELSE IF sortBy = "date" THEN DateValue(b.created_at) - DateValue(a.created_at)
    ELSE 0

\* a comparison that scores by the title alone
CompareByTitleOnly(a, b, sortBy, term) ==
    IF sortBy = "relevance"
    THEN (IF Includes(ToLowerCase(b.title), ToLowerCase(term)) THEN 3 ELSE 0)
            - (IF Includes(ToLowerCase(a.title), ToLowerCase(term)) THEN 3 ELSE 0)
    ELSE IF sortBy = "usage" THEN b.usage_count - a.usage_count
    ELSE IF sortBy = "date" THEN DateValue(b.created_at) - DateValue(a.created_at)
    ELSE 0

\* the comparison function given to sort
Compare(a, b, sortBy, term) ==
    IF sortBy = "relevance" THEN GetRelevanceScore(b, term) - GetRelevanceScore(a, term)
    ELSE IF sortBy = "usage" THEN b.usage_count - a.usage_count
    ELSE IF sortBy = "date" THEN DateValue(b.created_at) - DateValue(a.created_at)
    ELSE 0

\* Array.prototype.sort is stable: an element goes behind every element that
\* the comparison does not put after it
RECURSIVE InsertSorted(_, _, _, _)
InsertSorted(sorted, e, sortBy, term) ==
    IF sorted = <<>> THEN <<e>>
    ELSE IF Compare(Head(sorted), e, sortBy, term) > 0
         THEN <<e>> \o sorted
         ELSE <<Head(sorted)>> \o InsertSorted(Tail(sorted), e, sortBy, term)

RECURSIVE Sort(_, _, _)
Sort(list, sortBy, term) ==
    IF list = <<>> THEN <<>>
    ELSE InsertSorted(Sort(SubSeq(list, 1, Len(list) - 1), sortBy, term),
                      list[Len(list)], sortBy, term)

\* const sortedResults = [...results].sort(...)
SortedResults(res, sortBy, term) == Sort(res, sortBy, term)

\* lists of different prompts, as positions in the pool
RECURSIVE PoolLists(_)
PoolLists(n) ==
    IF n = 0 THEN {<<>>}
    ELSE PoolLists(n - 1) \cup
         {Append(l, i) : l \in {p \in PoolLists(n - 1) : Len(p) = n - 1},
                         i \in 1..Len(PromptPool)}

Renderings ==
    {[results |-> [k \in 1..Len(l) |-> PromptPool[l[k]]], sortBy |-> sortBy, searchTerm |-> term] :
        l \in {p \in PoolLists(MaxListLen) : \A i, j \in 1..Len(p) : i # j => p[i] # p[j]},
        sortBy \in {"relevance", "usage", "date", "title"},
        term \in {Str_py, Str_PY, Str_python}}

\* the component before it has results
ListInit ==
    /\ rendering = [results |-> <<>>, sortBy |-> "relevance", searchTerm |-> <<>>]
    /\ sortedResults = <<>>

\* a render computes sortedResults
Render ==
    /\ sortedResults' = SortedResults(rendering.results, rendering.sortBy, rendering.searchTerm)
    /\ UNCHANGED rendering
    /\ UNCHANGED nonListVars

\* the results, the sort mode or the term change
Rerender ==
    /\ sortedResults # <<>>
    /\ \E next \in Renderings :
          /\ next.results = rendering.results
          /\ next.sortBy # rendering.sortBy \/ next.searchTerm # rendering.searchTerm
          /\ rendering' = next
          /\ sortedResults' = SortedResults(next.results, next.sortBy, next.searchTerm)
    /\ UNCHANGED nonListVars

ListNext == Render \/ Rerender


(***************************************************************************)
(* The session.  Components call the backend through the axios instance    *)
(* api of services/api.js, which has interceptors of its own; the          *)
(* AuthProvider calls it through the global axios, on which it installs    *)
(* the interceptor that refreshes the access token.  Access tokens are     *)
(* numbered in the order in which the backend issues them, 0 is no token.  *)
(***************************************************************************)
\* access tokens that the backend issues in a session
MaxTokens == 3
\* requests that may await their response at the same time
MaxRequests == 2
\* refresh requests that may be waiting on one another
MaxRefreshChain == 2

NoToken == 0

\* the refresh token that a login stores
TheRefreshToken == 1

\* the status with which the backend answers a request that carries token
StatusFor(token) == IF token \in server.accepted THEN 200 ELSE 401

\* the app is open on the login page and nothing is stored
SessionInit ==
    /\ accessToken = NoToken
    /\ refreshToken = NoToken
    /\ authorization = NoToken
    /\ isAuthenticated = FALSE
    /\ location = "/login"
    /\ server = [issued |-> 0, accepted |-> {}, refreshAccepted |-> FALSE]
    /\ requests = <<>>
    /\ sessionEvent = [op |-> "mount", token |-> NoToken]

\* login(username, password) with credentials that the backend accepts
Login ==
    /\ ~isAuthenticated
    /\ requests = <<>>
    /\ server.issued < MaxTokens
    /\ LET access == server.issued + 1
       IN  /\ server' = [issued |-> access,
                         accepted |-> server.accepted \cup {access},
                         refreshAccepted |-> TRUE]
           /\ accessToken' = access
           /\ refreshToken' = TheRefreshToken
           /\ authorization' = access
           /\ sessionEvent' = [op |-> "login", token |-> access]
    /\ isAuthenticated' = TRUE
    /\ location' = "/"
    /\ UNCHANGED requests
    /\ UNCHANGED nonSessionVars

\* the backend stops accepting an access token
AccessTokenExpires ==
    /\ \E token \in server.accepted :
          /\ server' = [server EXCEPT !.accepted = @ \ {token}]
          /\ sessionEvent' = [op |-> "expired", token |-> token]
    /\ UNCHANGED <<accessToken, refreshToken, authorization, isAuthenticated, location,
                   requests>>
    /\ UNCHANGED nonSessionVars

\* the backend stops accepting the refresh token
RefreshTokenExpires ==
    /\ server.refreshAccepted
    /\ server' = [server EXCEPT !.refreshAccepted = FALSE]
    /\ sessionEvent' = [op |-> "refreshexpired", token |-> NoToken]
    /\ UNCHANGED <<accessToken, refreshToken, authorization, isAuthenticated, location,
                   requests>>
    /\ UNCHANGED nonSessionVars

\* the document is loaded: the AuthProvider mounts, and with a stored access
\* token it sets the default header and calls checkAuthStatus
MountedRequests(access) ==
    IF access # NoToken
    THEN <<[via |-> "axios", kind |-> "me", token |-> access, retry |-> FALSE,
            pending |-> <<>>]>>
    ELSE <<>>

PageLoad ==
    /\ authorization' = accessToken
    /\ isAuthenticated' = FALSE
    /\ requests' = MountedRequests(accessToken)
    /\ sessionEvent' = [op |-> "load", token |-> accessToken]
    /\ UNCHANGED <<accessToken, refreshToken, location, server>>
    /\ UNCHANGED nonSessionVars

\* a component calls the backend through api (promptsAPI, categoriesAPI, ...);
\* the request interceptor adds the stored access token
ApiRequest ==
    /\ isAuthenticated
    /\ Len(requests) < MaxRequests
    /\ requests' = Append(requests, [via |-> "api", kind |-> "data", token |-> accessToken,
                                     retry |-> FALSE, pending |-> <<>>])
    /\ sessionEvent' = [op |-> "apicall", token |-> accessToken]
    /\ UNCHANGED <<accessToken, refreshToken, authorization, isAuthenticated, location,
                   server>>
    /\ UNCHANGED nonSessionVars

\* the response interceptor of api: on 401 it removes both tokens and sends
\* the browser to /login, which loads the document anew
ApiResponse(i) ==
    /\ i \in 1..Len(requests)
    /\ requests[i].via = "api"
    /\ IF StatusFor(requests[i].token) = 401
       THEN /\ accessToken' = NoToken
            /\ refreshToken' = NoToken
            /\ location' = "/login"
            /\ authorization' = NoToken
            /\ isAuthenticated' = FALSE
            /\ requests' = MountedRequests(NoToken)
            /\ sessionEvent' = [op |-> "api401", token |-> requests[i].token]
       ELSE /\ requests' = RemoveAt(requests, i)
            /\ sessionEvent' = [op |-> "api200", token |-> requests[i].token]
            /\ UNCHANGED <<accessToken, refreshToken, location, authorization,
                           isAuthenticated>>
    /\ UNCHANGED server
    /\ UNCHANGED nonSessionVars

\* logout(), and what checkAuthStatus does when its request is rejected
LoggedOut(op, token) ==
    /\ accessToken' = NoToken
    /\ refreshToken' = NoToken
    /\ authorization' = NoToken
    /\ isAuthenticated' = FALSE
    /\ sessionEvent' = [op |-> op, token |-> token]

\* the AuthProvider's interceptor, for a request answered 401 that was not
\* sent again before: refreshToken() posts the stored refresh token, and the
\* request waits for the answer
StartRefresh(i) ==
    IF refreshToken = NoToken
    THEN /\ LoggedOut("norefresh", requests[i].token)
         /\ requests' = RemoveAt(requests, i)
    ELSE /\ requests' = [requests EXCEPT ![i] =
                [via |-> "axios", kind |-> "refresh", token |-> authorization,
                 retry |-> FALSE, pending |-> Append(requests[i].pending, requests[i].kind)]]
         /\ sessionEvent' = [op |-> "refreshing", token |-> requests[i].token]
         /\ UNCHANGED <<accessToken, refreshToken, authorization, isAuthenticated>>

\* the answer to the request of checkAuthStatus
AxiosResponse(i) ==
    /\ i \in 1..Len(requests)
    /\ requests[i].via = "axios"
    /\ requests[i].kind = "me"
    /\ IF StatusFor(requests[i].token) = 200
       THEN /\ isAuthenticated' = TRUE
            /\ requests' = RemoveAt(requests, i)
            /\ sessionEvent' = [op |-> "me200", token |-> requests[i].token]
            /\ UNCHANGED <<accessToken, refreshToken, authorization>>
       ELSE IF ~requests[i].retry
            THEN StartRefresh(i)
            ELSE /\ LoggedOut("me401", requests[i].token)
                 /\ requests' = RemoveAt(requests, i)
    /\ UNCHANGED <<location, server>>
    /\ UNCHANGED nonSessionVars

\* the answer to POST /api/auth/refresh/, which the global axios sends and
\* whose 401 therefore reaches the same interceptor
RefreshResponse(i) ==
    /\ i \in 1..Len(requests)
    /\ requests[i].kind = "refresh"
    /\ LET waiting == requests[i].pending
           resent == waiting[Len(waiting)]
       IN  IF server.refreshAccepted
           THEN /\ server.issued < MaxTokens
                /\ LET access == server.issued + 1
                   IN  /\ server' = [server EXCEPT !.issued = access,
                                                   !.accepted = @ \cup {access}]
                       /\ accessToken' = access
                       /\ authorization' = access
                       /\ requests' = [requests EXCEPT ![i] =
                              [via |-> "axios", kind |-> resent, token |-> access,
                               retry |-> TRUE,
                               pending |-> SubSeq(waiting, 1, Len(waiting) - 1)]]
                       /\ sessionEvent' = [op |-> "refreshed", token |-> access]
                /\ UNCHANGED <<refreshToken, isAuthenticated>>
           ELSE /\ UNCHANGED server
                /\ IF ~requests[i].retry
                   THEN /\ refreshToken # NoToken => Len(waiting) < MaxRefreshChain
                        /\ StartRefresh(i)
                   ELSE /\ LoggedOut("refresh401", requests[i].token)
                        /\ requests' = RemoveAt(requests, i)
    /\ UNCHANGED location
    /\ UNCHANGED nonSessionVars

SessionNext ==
    \/ Login
    \/ AccessTokenExpires
    \/ RefreshTokenExpires
    \/ PageLoad
    \/ ApiRequest
    \/ \E i \in 1..MaxRequests : ApiResponse(i)
    \/ \E i \in 1..MaxRequests : AxiosResponse(i)
    \/ \E i \in 1..MaxRequests : RefreshResponse(i)

(***************************************************************************)
(* The prompt list page (PromptList): the list of prompts with their       *)
(* favourite flags, reloaded by fetchPrompts, and handleToggleFavorite.    *)
(***************************************************************************)
\* prompts of the backend
NumPrompts == 2
\* toggles of favourites in one session
MaxToggles == 3
\* reloads of the list after the one of the mount
MaxFetches == 2
\* calls that may await their response at the same time
MaxCalls == 3

PromptIds == 1..NumPrompts

\* prevPrompts.map(prompt => prompt.id === id
\*     ? { ...prompt, is_favorite: !prompt.is_favorite } : prompt)
FlipFavorite(prevPrompts, id) ==
    [k \in 1..Len(prevPrompts) |->
        IF prevPrompts[k].id = id
        THEN [prevPrompts[k] EXCEPT !.is_favorite = ~ @]
        ELSE prevPrompts[k]]

\* the list the backend returns: every prompt with its flag
BackendList(flags) == [k \in 1..NumPrompts |-> [id |-> k, is_favorite |-> flags[k]]]

FetchCall == [kind |-> "fetch", id |-> 0, phase |-> "sent", ok |-> TRUE, data |-> <<>>]

ToggleCall(id) == [kind |-> "toggle", id |-> id, phase |-> "sent", ok |-> TRUE, data |-> <<>>]

\* the component is mounted: useState's initial values, and the effect has
\* called fetchPrompts, whose request is on its way
PromptListInit ==
    /\ prompts = <<>>
    /\ promptsLoading = TRUE
    /\ backend = [k \in PromptIds |-> k % 2 = 0]
    /\ calls = <<FetchCall>>
    /\ toggleLog = [k \in PromptIds |-> [initial |-> k % 2 = 0, successes |-> 0, toggles |-> 0]]
    /\ promptsEvent = [op |-> "mount", id |-> 0, fetches |-> 0]

\* fetchPrompts up to its await, called by the Refresh button, the search
\* form or the category select; while loading the page shows a spinner only
FetchPrompts ==
    /\ ~ promptsLoading
    /\ promptsEvent.fetches < MaxFetches
    /\ Len(calls) < MaxCalls
    /\ promptsLoading' = TRUE
    /\ calls' = Append(calls, FetchCall)
    /\ promptsEvent' = [op |-> "fetch", id |-> 0, fetches |-> promptsEvent.fetches + 1]
    /\ UNCHANGED <<prompts, backend, toggleLog>>
    /\ UNCHANGED nonPromptListVars

\* handleToggleFavorite up to its await: the heart button of a card
HandleToggleFavorite(id) ==
    /\ ~ promptsLoading
    /\ \E k \in 1..Len(prompts) : prompts[k].id = id
    /\ toggleLog[id].toggles < MaxToggles
    /\ Len(calls) < MaxCalls
    /\ prompts' = FlipFavorite(prompts, id)
    /\ calls' = Append(calls, ToggleCall(id))
    /\ toggleLog' = [toggleLog EXCEPT ![id].toggles = @ + 1]
    /\ promptsEvent' = [promptsEvent EXCEPT !.op = "toggle", !.id = id]
    /\ UNCHANGED <<promptsLoading, backend>>
    /\ UNCHANGED nonPromptListVars

\* the backend handles a call: it lists the prompts, or toggles the favourite
\* of a prompt, or answers with an error and changes nothing
BackendHandles(i, ok) ==
    /\ i \in 1..Len(calls)
    /\ calls[i].phase = "sent"
    /\ calls' = [calls EXCEPT ![i].phase = "answered", ![i].ok = ok,
                              ![i].data = IF ok /\ calls[i].kind = "fetch"
                                          THEN BackendList(backend) ELSE <<>>]
    /\ backend' = IF ok /\ calls[i].kind = "toggle"
                  THEN [backend EXCEPT ![calls[i].id] = ~ @]
                  ELSE backend
    /\ promptsEvent' = [promptsEvent EXCEPT !.op = "backend", !.id = calls[i].id]
    /\ UNCHANGED <<prompts, promptsLoading, toggleLog>>
    /\ UNCHANGED nonPromptListVars

\* the rest of fetchPrompts once the response is there
FetchResponse(i) ==
    /\ i \in 1..Len(calls)
    /\ calls[i].kind = "fetch"
    /\ calls[i].phase = "answered"
    /\ prompts' = IF calls[i].ok THEN calls[i].data ELSE prompts
    /\ promptsLoading' = FALSE
    /\ calls' = [k \in 1..(Len(calls) - 1) |-> IF k < i THEN calls[k] ELSE calls[k + 1]]
    /\ promptsEvent' = [promptsEvent EXCEPT !.op = IF calls[i].ok THEN "loaded" ELSE "loadfailed",
                                            !.id = 0]
    /\ UNCHANGED <<backend, toggleLog>>
    /\ UNCHANGED nonPromptListVars

\* the rest of handleToggleFavorite once the response is there: the toast, or
\* the catch block that flips the flag back
ToggleResponse(i) ==
    /\ i \in 1..Len(calls)
    /\ calls[i].kind = "toggle"
    /\ calls[i].phase = "answered"
    /\ prompts' = IF calls[i].ok THEN prompts ELSE FlipFavorite(prompts, calls[i].id)
    /\ toggleLog' = IF calls[i].ok
                    THEN [toggleLog EXCEPT ![calls[i].id].successes = @ + 1]
                    ELSE toggleLog
    /\ calls' = [k \in 1..(Len(calls) - 1) |-> IF k < i THEN calls[k] ELSE calls[k + 1]]
    /\ promptsEvent' = [promptsEvent EXCEPT !.op = IF calls[i].ok THEN "toggled" ELSE "reverted",
                                            !.id = calls[i].id]
    /\ UNCHANGED <<promptsLoading, backend>>
    /\ UNCHANGED nonPromptListVars

PromptListNext ==
    \/ FetchPrompts
    \/ \E id \in PromptIds : HandleToggleFavorite(id)
    \/ \E i \in 1..MaxCalls, ok \in BOOLEAN : BackendHandles(i, ok)
    \/ \E i \in 1..MaxCalls : FetchResponse(i)
    \/ \E i \in 1..MaxCalls : ToggleResponse(i)

(***************************************************************************)
(* The validation utilities (utils/validation): strings are sequences of   *)
(* character codes, and each regular expression is matched as the engine   *)
(* matches it.                                                             *)
(***************************************************************************)
\* the printable characters in the order of their codes from 32 on (a space
\* stands where a character cannot be written in a string here)
Chars == " ! #$%& ()*+,-./0123456789:;<=>?@ABCDEFGHIJKLMNOPQRSTUVWXYZ[ ]^_ abcdefghijklmnopqrstuvwxyz{|}~"

CodeOf(c) == 31 + CHOOSE i \in 1..Len(Chars) : SubSeq(Chars, i, i) = c

\* the character codes of a string
Codes(str) == [i \in 1..Len(str) |-> CodeOf(SubSeq(str, i, i))]

\* two characters that the i flag of a regular expression takes for the same
SameLetter(a, b) == a = b \/ (a \in 65..90 /\ b = a + 32) \/ (a \in 97..122 /\ b = a - 32)

\* \w
IsWordChar(c) == c \in 48..57 \/ c \in 65..90 \/ c \in 97..122 \/ c = 95

\* a literal pattern under the i flag matches at position i of s
MatchesAt(s, i, pattern) ==
    /\ i >= 1
    /\ i + Len(pattern) - 1 <= Len(s)
    /\ \A k \in 1..Len(pattern) : SameLetter(s[i + k - 1], pattern[k])

\* pattern.test(s) for a literal pattern under the i flag
Test(s, pattern) == \E i \in 1..Len(s) : MatchesAt(s, i, pattern)

\* s.replace(/pattern/gi, ''): the matches are found from left to right in
\* the string as it was, and none is looked for in the result
RECURSIVE RemoveLiteral(_, _)
RemoveLiteral(s, pattern) ==
    IF s = <<>> THEN <<>>
    ELSE IF MatchesAt(s, 1, pattern)
         THEN RemoveLiteral(SubSeq(s, Len(pattern) + 1, Len(s)), pattern)
         ELSE <<Head(s)>> \o RemoveLiteral(Tail(s), pattern)

\* the end of the match of /<tag\b[^<]*(?:(?!<\/tag>)<[^<]*)*<\/tag>/i at the
\* start of s, or 0: the opening "<tag" at a word boundary, and the first
\* closing "</tag>" after it (no "<" that begins a closing tag is passed)
ElementEnd(s, open, close) ==
    IF /\ MatchesAt(s, 1, open)
       /\ Len(s) > Len(open)
       /\ ~ IsWordChar(s[Len(open) + 1])
       /\ \E j \in (Len(open) + 1)..Len(s) : MatchesAt(s, j, close)
    THEN LET j == CHOOSE j \in (Len(open) + 1)..Len(s) :
                     /\ MatchesAt(s, j, close)
                     /\ \A h \in (Len(open) + 1)..(j - 1) : ~ MatchesAt(s, h, close)
         IN  j + Len(close) - 1
    ELSE 0

RECURSIVE RemoveElements(_, _, _)
RemoveElements(s, open, close) ==
    IF s = <<>> THEN <<>>
    ELSE IF ElementEnd(s, open, close) > 0
         THEN RemoveElements(SubSeq(s, ElementEnd(s, open, close) + 1, Len(s)), open, close)
         ELSE <<Head(s)>> \o RemoveElements(Tail(s), open, close)

\* the end of the match of /on\w+\s*=/i at the start of s, or 0: \w+ takes
\* every word character there is, then the blanks, then "="
HandlerEnd(s) ==
    IF Len(s) >= 4 /\ SameLetter(s[1], 111) /\ SameLetter(s[2], 110) /\ IsWordChar(s[3])
    THEN LET w == CHOOSE w \in 3..Len(s) :
                     /\ \A h \in 3..w : IsWordChar(s[h])
                     /\ w = Len(s) \/ ~ IsWordChar(s[w + 1])
             b == CHOOSE b \in w..Len(s) :
                     /\ \A h \in (w + 1)..b : IsWhiteSpace(s[h])
                     /\ b = Len(s) \/ ~ IsWhiteSpace(s[b + 1])
         IN  IF b < Len(s) /\ s[b + 1] = 61 THEN b + 1 ELSE 0
    ELSE 0

RECURSIVE RemoveHandlers(_)
RemoveHandlers(s) ==
    IF s = <<>> THEN <<>>
    ELSE IF HandlerEnd(s) > 0
         THEN RemoveHandlers(SubSeq(s, HandlerEnd(s) + 1, Len(s)))
         ELSE <<Head(s)>> \o RemoveHandlers(Tail(s))

Str_script_open == Codes("<script")
Str_script_close == Codes("</script>")
Str_iframe_open == Codes("<iframe")
Str_iframe_close == Codes("</iframe>")
Str_javascript == Codes("javascript:")

\* sanitizeContent(content)
SanitizeContent(content) ==
    IF content = <<>> THEN <<>>
    ELSE Trim(RemoveHandlers(
              RemoveLiteral(
                  RemoveElements(
                      RemoveElements(content, Str_script_open, Str_script_close),
                      Str_iframe_open, Str_iframe_close),
                  Str_javascript)))

\* VALIDATION_RULES: 0 and "" stand for a rule that the field does not have
VALIDATION_RULES ==
    [ title       |-> [minLength |-> 3, maxLength |-> 200, maxItems |-> 0,
                       pattern |-> "title", required |-> TRUE],
      description |-> [minLength |-> 0, maxLength |-> 1000, maxItems |-> 0,
                       pattern |-> "", required |-> FALSE],
      content     |-> [minLength |-> 10, maxLength |-> 10000, maxItems |-> 0,
                       pattern |-> "", required |-> TRUE],
      category    |-> [minLength |-> 0, maxLength |-> 0, maxItems |-> 0,
                       pattern |-> "", required |-> TRUE],
      tags        |-> [minLength |-> 0, maxLength |-> 50, maxItems |-> 10,
                       pattern |-> "tags", required |-> FALSE] ]

\* the characters of the class of a pattern: /^[a-zA-Z0-9\s\-_.,!?()[\]{}'"`]+$/
\* for the title and /^[a-zA-Z0-9\-_]+$/ for the tags
InClass(pattern, c) ==
    \/ c \in 48..57 \/ c \in 65..90 \/ c \in 97..122 \/ c = 45 \/ c = 95
    \/ /\ pattern = "title"
       /\ \/ IsWhiteSpace(c)
          \/ c \in {46, 44, 33, 63, 40, 41, 91, 93, 123, 125, 39, 34, 96}

\* pattern.test(str) for a pattern ^[class]+$
PatternTest(pattern, str) == str # <<>> /\ \A i \in 1..Len(str) : InClass(pattern, str[i])

\* Array.prototype.toString: the items joined by commas
RECURSIVE JoinItems(_)
JoinItems(items) ==
    IF items = <<>> THEN <<>>
    ELSE IF Len(items) = 1 THEN items[1]
    ELSE items[1] \o <<44>> \o JoinItems(Tail(items))

\* the values a field can hold: a string, or an array of strings
StringValue(str) == [isArray |-> FALSE, str |-> str, items |-> <<>>]

ArrayValue(items) == [isArray |-> TRUE, str |-> JoinItems(items), items |-> items]

NotValidated == [isValid |-> TRUE, errors |-> {"not validated"}]

\* validateField(fieldName, value); value.str is value.toString()
ValidateField(fieldName, value) ==
    LET rules == VALIDATION_RULES[fieldName]
        empty == (~ value.isArray /\ value.str = <<>>) \/ Trim(value.str) = <<>>
        required == IF rules.required /\ empty THEN {"required"} ELSE {}
        minLength == IF rules.minLength # 0 /\ Len(value.str) < rules.minLength
                     THEN {"minLength"} ELSE {}
        maxLength == IF rules.maxLength # 0 /\ Len(value.str) > rules.maxLength
                     THEN {"maxLength"} ELSE {}
        pattern == IF rules.pattern # "" /\ ~ PatternTest(rules.pattern, value.str)
                   THEN {"pattern"} ELSE {}
        maxItems == IF value.isArray /\ rules.maxItems # 0 /\ Len(value.items) > rules.maxItems
                    THEN {"maxItems"} ELSE {}
        itemLength == IF /\ value.isArray /\ rules.maxLength # 0
                         /\ \E k \in 1..Len(value.items) : Len(value.items[k]) > rules.maxLength
                      THEN {"item maxLength"} ELSE {}
        itemPattern == IF /\ value.isArray /\ rules.pattern # ""
                          /\ \E k \in 1..Len(value.items) :
                                ~ PatternTest(rules.pattern, value.items[k])
                       THEN {"item pattern"} ELSE {}
        errors == IF empty THEN required
                  ELSE required \cup minLength \cup maxLength \cup pattern
                       \cup maxItems \cup itemLength \cup itemPattern
    IN  [isValid |-> errors = {}, errors |-> errors]

\* tags a list may hold
MaxTags == 11

\* "ta", "tb", ...: tags that keep every rule
PlainTags == [k \in 1..MaxTags |-> <<116, 96 + k>>]

\* a tag of n letters
LongTag(n) == [i \in 1..n |-> 120]

\* a tag as long as allowed, one too long, one with a blank, an empty one
OddTags == {LongTag(VALIDATION_RULES.tags.maxLength),
            LongTag(VALIDATION_RULES.tags.maxLength + 1),
            Codes("a b"),
            <<>>}

\* the lists of the first n plain tags, with at most one tag replaced by an odd one
TagLists ==
    {SubSeq(PlainTags, 1, n) : n \in 0..MaxTags}
    \cup UNION {{[SubSeq(PlainTags, 1, n) EXCEPT ![k] = odd] : k \in 1..n, odd \in OddTags} :
                    n \in 1..MaxTags}

\* formData.tags is about to be validated
TagsInit ==
    /\ SearchInit /\ ThemeInit /\ ListInit /\ SessionInit /\ PromptListInit /\ FormInit /\ ImprovementInit
    /\ input \in TagLists
    /\ sanitized = <<>>
    /\ applied = 0
    /\ verdict = NotValidated

\* validateField('tags', formData.tags), as validateForm calls it
ValidateTags ==
    /\ verdict = NotValidated
    /\ verdict' = ValidateField("tags", ArrayValue(input))
    /\ UNCHANGED <<input, sanitized, applied>>
    /\ UNCHANGED nonValidationVars

\* validateForm(formData): the result of validateField for every field of the rules
ValidateForm(data) ==
    LET validationResults == [fieldName \in FieldNames |->
                       ValidateField(fieldName,
                           IF fieldName = "tags" THEN ArrayValue(data[fieldName])
                                                 ELSE StringValue(data[fieldName]))]
    IN  [isValid |-> \A fieldName \in FieldNames : validationResults[fieldName].isValid,
         fieldErrors |-> validationResults]

\* dangerousPatterns of checkContentSafety
DangerousPatterns ==
    { Codes("<script"), Codes("javascript:"), Codes("vbscript:"), Codes("onload="),
      Codes("onerror="), Codes("onclick="), Codes("onmouseover="), Codes("eval("),
      Codes("document.cookie"), Codes("window.location"), Codes("alert("),
      Codes("confirm("), Codes("prompt(") }

AlwaysSafe(text) == TRUE

\* checkContentSafety(content)
CheckContentSafety(text) == \A pattern \in DangerousPatterns : ~ Test(text, pattern)

\* injectionPatterns of validatePrompt
InjectionPatterns ==
    { Codes("system prompt"), Codes("ignore previous"), Codes("override"),
      Codes("bypass"), Codes("admin mode") }

\* text.split(/\s+/): the pieces between runs of blanks, empty pieces at the
\* ends included
RECURSIVE SplitWords(_, _)
SplitWords(text, word) ==
    IF text = <<>> THEN <<word>>
    ELSE IF IsWhiteSpace(Head(text))
         THEN <<word>> \o SplitWords(TrimStart(text), <<>>)
         ELSE SplitWords(Tail(text), Append(word, Head(text)))

\* repetitionRatio > 0.8, with the ratio (wordCount - uniqueWords.size) / wordCount
ExcessiveRepetition(text) ==
    LET words == SplitWords(text, <<>>)
        wordCount == Len(words)
        uniqueWords == {ToLowerCase(words[k]) : k \in 1..wordCount}
    IN  wordCount > 0 /\ 10 * (wordCount - Cardinality(uniqueWords)) > 8 * wordCount

UnsafeContent == [isValid |-> FALSE, errors |-> {"unsafe patterns"}]

\* validatePrompt(promptData)
ValidatePrompt(promptData) ==
    LET baseValidation == ValidateForm(promptData)
        injection == \E pattern \in InjectionPatterns : Test(promptData.content, pattern)
        repetition == ExcessiveRepetition(promptData.content)
        additional == injection \/ repetition
    IN  [isValid |-> baseValidation.isValid /\ ~ additional,
         fieldErrors |->
            [fieldName \in FieldNames |->
                IF fieldName = "content" /\ repetition
                THEN [isValid |-> FALSE, errors |-> {"excessive repetition"}]
                ELSE IF fieldName = "content" /\ injection
                THEN UnsafeContent
                ELSE baseValidation.fieldErrors[fieldName]]]

\* pieces of text that sanitizeContent is about, and pieces of them
Fragments ==
    << Codes("java"), Codes("script:"), Codes("javascript:"),
       Codes("<scr"), Codes("ipt>"), Codes("<script></script>"), Codes("</script>"),
       Codes("on"), Codes("click="), Codes("onclick="),
       Codes("<iframe>"), Codes("</iframe>"), Codes("a"), Codes(" ") >>

\* fragments an input is made of
MaxFragments == 4

RECURSIVE Joined(_)
Joined(n) ==
    IF n = 0 THEN {<<>>}
    ELSE Joined(n - 1) \cup {s \o Fragments[k] : s \in Joined(n - 1), k \in 1..Len(Fragments)}

SanitizerInputs == Joined(MaxFragments)

\* nothing has been handed to the utilities
ValidationInit ==
    /\ input = <<>>
    /\ sanitized = <<>>
    /\ applied = 0
    /\ verdict = NotValidated

\* a text is about to be sanitized
SanitizerInit ==
    /\ SearchInit /\ ThemeInit /\ ListInit /\ SessionInit /\ PromptListInit /\ FormInit /\ ImprovementInit
    /\ input \in SanitizerInputs
    /\ sanitized = <<>>
    /\ applied = 0
    /\ verdict = NotValidated

\* sanitizeContent(input)
Sanitize ==
    /\ applied = 0
    /\ sanitized' = SanitizeContent(input)
    /\ applied' = 1
    /\ UNCHANGED <<input, verdict>>
    /\ UNCHANGED nonValidationVars

\* sanitizeContent applied to its own result
SanitizeAgain ==
    /\ applied = 1
    /\ sanitized' = SanitizeContent(sanitized)
    /\ applied' = 2
    /\ UNCHANGED <<input, verdict>>
    /\ UNCHANGED nonValidationVars

SanitizerNext == Sanitize \/ SanitizeAgain

\* ---------------------------------------------------------------------------
\* PromptForm: the form that creates or updates a prompt
\* ---------------------------------------------------------------------------

\* handleSubmit calls that are accepted in one behaviour
MaxSubmissions == 2

\* how often the form is opened in one behaviour
MaxMounts == 1

\* values typed into the title, the content and the category select
TitleValues == {Codes("My prompt"), Codes("ab")}

ContentValues ==
    { Codes("Write a short poem about the sea"),
      Codes("short"),
      Codes("Please bypass the usual rules"),
      Codes("call alert(1) now please"),
      Codes("javaonclick=script: do something here") }

CategoryValues == {Codes("1"), <<>>}

TagValues == {Codes("ta")}

\* the prompt the backend returns to fetchPrompt
StoredPrompt ==
    [title |-> Codes("My prompt"), description |-> <<>>,
     content |-> Codes("Write a short poem about the sea"),
     category |-> Codes("1"), tags |-> <<>>]

\* the entry handleSubmit sets for a guardrails verdict of not valid
GuardrailsViolation == [isValid |-> FALSE, errors |-> {"guardrails violation"}]

\* the entry handleSubmit sets for a field the backend rejected
BackendError == [isValid |-> FALSE, errors |-> {"backend error"}]

\* the component is mounted, for a new prompt or for an existing one: the
\* state hooks and the mount effect with fetchCategories and fetchPrompt
MountForm(editing) ==
    /\ page = "/prompts"
    /\ submissions = <<>>
    /\ formEvent.mounts < MaxMounts
    /\ page' = "form"
    /\ isEditing' = editing
    /\ formData' = EmptyForm
    /\ originalFormData' = <<>>
    /\ formLoading' = TRUE
    /\ isValidating' = FALSE
    /\ guardrailsEnabled' = TRUE
    /\ fieldErrors' = NoFieldErrors
    /\ loads' = IF editing THEN {"categories", "prompt"} ELSE {"categories"}
    /\ formEvent' = [op |-> "mount", outcome |-> "none",
                     mounts |-> formEvent.mounts + 1]
    /\ UNCHANGED <<submissions, saveCalls, guardrailsCalls>>
    /\ UNCHANGED nonFormVars

\* fetchCategories settles, with the categories or with an error
FetchCategoriesSettled ==
    /\ "categories" \in loads
    /\ loads' = loads \ {"categories"}
    /\ formLoading' = FALSE
    /\ formEvent' = [formEvent EXCEPT !.op = "loaded"]
    /\ UNCHANGED <<formData, originalFormData, isEditing, isValidating, guardrailsEnabled,
                   fieldErrors, submissions, saveCalls, guardrailsCalls, page>>
    /\ UNCHANGED nonFormVars

\* fetchPrompt settles, with the prompt or with an error
FetchPromptSettled(ok) ==
    /\ "prompt" \in loads
    /\ loads' = loads \ {"prompt"}
    /\ formData' = IF ok THEN StoredPrompt ELSE formData
    /\ originalFormData' = IF ok THEN <<StoredPrompt>> ELSE originalFormData
    /\ formEvent' = [formEvent EXCEPT !.op = "loaded"]
    /\ UNCHANGED <<isEditing, formLoading, isValidating, guardrailsEnabled, fieldErrors,
                   submissions, saveCalls, guardrailsCalls, page>>
    /\ UNCHANGED nonFormVars

\* hasChanges()
HasChanges ==
    \/ originalFormData = <<>>
    \/ \E fieldName \in FieldNames : formData[fieldName] # originalFormData[1][fieldName]

\* handleChange for the title, the content or the category
HandleChange(name, value) ==
    /\ page = "form"
    /\ formData[name] # value
    /\ ~ (name = "category" /\ formLoading)
    /\ formData' = [formData EXCEPT ![name] = value]
    /\ fieldErrors' = [fieldErrors EXCEPT ![name] = NoError]
    /\ formEvent' = [formEvent EXCEPT !.op = "change"]
    /\ UNCHANGED <<originalFormData, isEditing, formLoading, isValidating, guardrailsEnabled,
                   loads, submissions, saveCalls, guardrailsCalls, page>>
    /\ UNCHANGED nonFormVars

\* handleAddTag with a tag typed into the tag input
HandleAddTag(tag) ==
    /\ page = "form"
    /\ \A k \in 1..Len(formData.tags) : formData.tags[k] # tag
    /\ formData' = [formData EXCEPT !.tags = Append(@, tag)]
    /\ formEvent' = [formEvent EXCEPT !.op = "change"]
    /\ UNCHANGED <<originalFormData, isEditing, formLoading, isValidating, guardrailsEnabled,
                   fieldErrors, loads, submissions, saveCalls, guardrailsCalls, page>>
    /\ UNCHANGED nonFormVars

\* the button that switches the guardrails check on and off
ToggleGuardrails ==
    /\ page = "form"
    /\ guardrailsEnabled' = ~ guardrailsEnabled
    /\ formEvent' = [formEvent EXCEPT !.op = "change"]
    /\ UNCHANGED <<formData, originalFormData, isEditing, formLoading, isValidating,
                   fieldErrors, loads, submissions, saveCalls, guardrailsCalls, page>>
    /\ UNCHANGED nonFormVars

\* the browser fires the submit event only when the required inputs have a value
RequiredFilled ==
    /\ formData.title # <<>>
    /\ formData.content # <<>>
    /\ formLoading \/ formData.category # <<>>

\* the create or update call of handleSubmit
SaveCall(data) == [kind |-> IF isEditing THEN "update" ELSE "create", data |-> data]

\* a handleSubmit call that awaits the guardrails service or the save call
Submission(phase, data) == [phase |-> phase, data |-> data]

\* a guardrails check that also stops the submission when the service fails
BlocksUnlessValid(outcome) == outcome # "valid"

\* a verdict of the guardrails service that makes handleSubmit return
GuardrailsBlocks(outcome) == outcome = "invalid"

\* handleSubmit up to its first await
HandleSubmit ==
    LET hasDataChanged == isEditing /\ HasChanges
        sanitizedFormData ==
            [formData EXCEPT !.content = SanitizeContent(formData.content),
                             !.title = SanitizeContent(formData.title),
                             !.description = SanitizeContent(formData.description)]
        validation == ValidatePrompt(sanitizedFormData)
    IN  IF isEditing /\ ~ hasDataChanged
        THEN /\ page' = "/prompts"
             /\ formEvent' = [formEvent EXCEPT !.op = "submit", !.outcome = "unchanged"]
             /\ UNCHANGED <<isValidating, formLoading, fieldErrors, submissions,
                            saveCalls, guardrailsCalls>>
        ELSE IF ~ validation.isValid
        THEN /\ fieldErrors' = validation.fieldErrors
             /\ isValidating' = FALSE
             /\ formEvent' = [formEvent EXCEPT !.op = "submit", !.outcome = "invalid"]
             /\ UNCHANGED <<formLoading, submissions, saveCalls, guardrailsCalls, page>>
        ELSE IF ~ CheckContentSafety(sanitizedFormData.content)
        THEN /\ fieldErrors' = [NoFieldErrors EXCEPT !["content"] = UnsafeContent]
             /\ isValidating' = FALSE
             /\ formEvent' = [formEvent EXCEPT !.op = "submit", !.outcome = "unsafe"]
             /\ UNCHANGED <<formLoading, submissions, saveCalls, guardrailsCalls, page>>
        ELSE IF guardrailsEnabled
        THEN /\ isValidating' = TRUE
             /\ submissions' = Append(submissions, Submission("guardrails", sanitizedFormData))
             /\ guardrailsCalls' = guardrailsCalls + 1
             /\ formEvent' = [formEvent EXCEPT !.op = "submit", !.outcome = "guardrails"]
             /\ UNCHANGED <<formLoading, fieldErrors, saveCalls, page>>
        ELSE /\ isValidating' = TRUE
             /\ formLoading' = TRUE
             /\ fieldErrors' = NoFieldErrors
             /\ submissions' = Append(submissions, Submission("save", sanitizedFormData))
             /\ saveCalls' = Append(saveCalls, SaveCall(sanitizedFormData))
             /\ formEvent' = [formEvent EXCEPT !.op = "submit", !.outcome = "save"]
             /\ UNCHANGED <<guardrailsCalls, page>>

\* another handleSubmit call fits the bound: the calls that await the
\* guardrails service and the save calls made, and the guardrails calls made
WithinSubmissions ==
    LET awaiting == {i \in 1..Len(submissions) : submissions[i].phase = "guardrails"}
    IN  /\ Len(saveCalls) + Cardinality(awaiting) < MaxSubmissions
        /\ guardrailsCalls < MaxSubmissions

\* the submit button, or Enter in an input of the form
SubmitButton ==
    /\ page = "form"
    /\ ~ formLoading
    /\ RequiredFilled
    /\ WithinSubmissions
    /\ HandleSubmit
    /\ UNCHANGED <<formData, originalFormData, isEditing, guardrailsEnabled, loads>>
    /\ UNCHANGED nonFormVars

\* handleKeyDown with Ctrl+S or Cmd+S
SaveShortcut ==
    /\ page = "form"
    /\ ~ formLoading /\ ~ isValidating
    /\ RequiredFilled
    /\ WithinSubmissions
    /\ HandleSubmit
    /\ UNCHANGED <<formData, originalFormData, isEditing, guardrailsEnabled, loads>>
    /\ UNCHANGED nonFormVars

\* submissions without the i-th
WithoutSubmission(i) == SubSeq(submissions, 1, i - 1) \o SubSeq(submissions, i + 1, Len(submissions))

\* validateWithGuardrails settles and handleSubmit runs on to the save call
GuardrailsResponse(i, outcome) ==
    /\ i \in 1..Len(submissions)
    /\ submissions[i].phase = "guardrails"
    /\ IF GuardrailsBlocks(outcome)
       THEN /\ fieldErrors' = [NoFieldErrors EXCEPT !["content"] = GuardrailsViolation]
            /\ isValidating' = FALSE
            /\ submissions' = WithoutSubmission(i)
            /\ formEvent' = [formEvent EXCEPT !.op = "guardrails response",
                                              !.outcome = outcome]
            /\ UNCHANGED <<formLoading, saveCalls>>
       ELSE /\ formLoading' = TRUE
            /\ fieldErrors' = NoFieldErrors
            /\ submissions' = [submissions EXCEPT ![i].phase = "save"]
            /\ saveCalls' = Append(saveCalls, SaveCall(submissions[i].data))
            /\ formEvent' = [formEvent EXCEPT !.op = "guardrails response",
                                              !.outcome = outcome]
            /\ UNCHANGED isValidating
    /\ UNCHANGED <<formData, originalFormData, isEditing, guardrailsEnabled, loads,
                   guardrailsCalls, page>>
    /\ UNCHANGED nonFormVars

\* createPrompt or updatePrompt settles
SaveResponse(i, outcome) ==
    /\ i \in 1..Len(submissions)
    /\ submissions[i].phase = "save"
    /\ page' = IF outcome = "ok" THEN "/prompts" ELSE page
    /\ fieldErrors' = IF outcome = "rejected"
                      THEN [NoFieldErrors EXCEPT !["title"] = BackendError]
                      ELSE fieldErrors
    /\ formLoading' = FALSE
    /\ isValidating' = FALSE
    /\ submissions' = WithoutSubmission(i)
    /\ formEvent' = [formEvent EXCEPT !.op = "save response",
                                         !.outcome = outcome]
    /\ UNCHANGED <<formData, originalFormData, isEditing, guardrailsEnabled, loads,
                   saveCalls, guardrailsCalls>>
    /\ UNCHANGED nonFormVars

FormNext ==
    \/ \E editing \in BOOLEAN : MountForm(editing)
    \/ FetchCategoriesSettled
    \/ \E ok \in BOOLEAN : FetchPromptSettled(ok)
    \/ \E value \in TitleValues : HandleChange("title", value)
    \/ \E value \in ContentValues : HandleChange("content", value)
    \/ \E value \in CategoryValues : HandleChange("category", value)
    \/ \E tag \in TagValues : HandleAddTag(tag)
    \/ ToggleGuardrails
    \/ SubmitButton
    \/ SaveShortcut
    \/ \E i \in 1..MaxSubmissions, outcome \in {"valid", "invalid", "error"} :
          GuardrailsResponse(i, outcome)
    \/ \E i \in 1..MaxSubmissions, outcome \in {"ok", "rejected", "failed"} :
          SaveResponse(i, outcome)

\* ---------------------------------------------------------------------------
\* PromptImprovement: the panel that asks for an improved version of the content
\* ---------------------------------------------------------------------------

\* improvePrompt calls that get past the empty check in one behaviour
MaxImprovements == 2

\* contents of the form while the panel is shown: the form shows the panel
\* only for a content that is not empty
PromptValues == {Codes("p1"), Codes("p2"), Codes(" ")}

\* improved_prompt of a response of the improve endpoint; the empty one
\* stands for a response without an improvement
CandidateValues == {Codes("better"), <<>>}

\* a request sent by improvePrompt
ImproveRequest(api, text) == [api |-> api, content |-> text]

\* a guardrails check that stops the flow only on a verdict of not valid
PassesUnlessInvalid(outcome) == outcome # "invalid"

\* validation_result.valid of a guardrails response that arrived
CheckPassed(outcome) == outcome = "valid"

\* the form hands in another content
PromptChanges(value) ==
    /\ currentPrompt # value
    /\ currentPrompt' = value
    /\ improveEvent' = "prompt"
    /\ UNCHANGED <<improvedPrompt, improving, improveError, improvementApplied,
                   improveRun, improveLog>>
    /\ UNCHANGED nonImprovementVars

\* the Improve button: improvePrompt up to the guardrails call for the input
ImprovePrompt ==
    /\ ~ improving
    /\ Len(SelectSeq(improveLog, LAMBDA r : r.api = "improve")) < MaxImprovements
    /\ Len(improveLog) < 3 * MaxImprovements
    /\ IF Trim(currentPrompt) = <<>>
       THEN /\ improveEvent' = "nothing to improve"
            /\ UNCHANGED <<improvedPrompt, improving, improveError, improveRun, improveLog>>
       ELSE /\ improving' = TRUE
            /\ improveError' = "null"
            /\ improvedPrompt' = <<>>
            /\ improveRun' = [NoRun EXCEPT !.phase = "pre-check", !.prompt = currentPrompt]
            /\ improveLog' = Append(improveLog, ImproveRequest("guardrails", currentPrompt))
            /\ improveEvent' = "improve"
    /\ UNCHANGED <<currentPrompt, improvementApplied>>
    /\ UNCHANGED nonImprovementVars

\* the guardrails call for the input settles
PreCheckResponse(outcome) ==
    /\ improveRun.phase = "pre-check"
    /\ IF CheckPassed(outcome)
       THEN /\ improveRun' = [improveRun EXCEPT !.phase = "improve", !.pre = outcome]
            /\ improveLog' = Append(improveLog, ImproveRequest("improve", improveRun.prompt))
            /\ UNCHANGED <<improving, improveError>>
       ELSE /\ improveRun' = [improveRun EXCEPT !.phase = "idle", !.pre = outcome]
            /\ improveError' = IF outcome = "invalid" THEN "input blocked"
                                                      ELSE "input check failed"
            /\ improving' = FALSE
            /\ UNCHANGED improveLog
    /\ improveEvent' = "pre-check"
    /\ UNCHANGED <<currentPrompt, improvedPrompt, improvementApplied>>
    /\ UNCHANGED nonImprovementVars

\* the improve call fails
ImproveFails ==
    /\ improveRun.phase = "improve"
    /\ improveRun' = [improveRun EXCEPT !.phase = "idle"]
    /\ improveError' = "failed to improve"
    /\ improving' = FALSE
    /\ improveEvent' = "improve failed"
    /\ UNCHANGED <<currentPrompt, improvedPrompt, improvementApplied, improveLog>>
    /\ UNCHANGED nonImprovementVars

\* the improve call returns, with a candidate or without one
ImproveResponse(candidate) ==
    /\ improveRun.phase = "improve"
    /\ IF candidate # <<>>
       THEN /\ improveRun' = [improveRun EXCEPT !.phase = "post-check", !.candidate = candidate]
            /\ improveLog' = Append(improveLog, ImproveRequest("guardrails", candidate))
            /\ UNCHANGED <<improving, improveError>>
       ELSE /\ improveRun' = [improveRun EXCEPT !.phase = "idle"]
            /\ improveError' = "no improvement"
            /\ improving' = FALSE
            /\ UNCHANGED improveLog
    /\ improveEvent' = "improved"
    /\ UNCHANGED <<currentPrompt, improvedPrompt, improvementApplied>>
    /\ UNCHANGED nonImprovementVars

\* the guardrails call for the candidate settles
PostCheckResponse(outcome) ==
    /\ improveRun.phase = "post-check"
    /\ improveRun' = [improveRun EXCEPT !.phase = "idle", !.post = outcome]
    /\ IF CheckPassed(outcome)
       THEN /\ improvedPrompt' = improveRun.candidate
            /\ UNCHANGED improveError
       ELSE /\ improveError' = IF outcome = "invalid" THEN "candidate blocked"
                                                      ELSE "candidate check failed"
            /\ UNCHANGED improvedPrompt
    /\ improving' = FALSE
    /\ improveEvent' = "post-check"
    /\ UNCHANGED <<currentPrompt, improvementApplied, improveLog>>
    /\ UNCHANGED nonImprovementVars

\* the Apply button: handleApplyImprovement, and the form's
\* handleApplyPromptImprovement that makes the improved prompt the content
HandleApplyImprovement ==
    /\ improvedPrompt # <<>>
    /\ ~ improvementApplied
    /\ currentPrompt' = improvedPrompt
    /\ improvementApplied' = TRUE
    /\ improveEvent' = "apply"
    /\ UNCHANGED <<improvedPrompt, improving, improveError, improveRun, improveLog>>
    /\ UNCHANGED nonImprovementVars

ImprovementNext ==
    \/ \E value \in PromptValues : PromptChanges(value)
    \/ ImprovePrompt
    \/ \E outcome \in {"valid", "invalid", "error"} : PreCheckResponse(outcome)
    \/ ImproveFails
    \/ \E candidate \in CandidateValues : ImproveResponse(candidate)
    \/ \E outcome \in {"valid", "invalid", "error"} : PostCheckResponse(outcome)
    \/ HandleApplyImprovement

vars == <<searchVars, themeVars, listVars, sessionVars, promptListVars, validationVars, formVars, improvementVars>>

Init == SearchInit /\ ThemeInit /\ ListInit /\ SessionInit /\ PromptListInit /\ ValidationInit /\ FormInit /\ ImprovementInit

Spec == Init /\ [][SearchNext]_vars

CacheSpec == Init /\ [][CacheNext]_vars

ThemeSpec == Init /\ [][ThemeNext]_vars

SessionSpec == Init /\ [][SessionNext]_vars

\* the prompt list page with favourite toggles and reloads of the list
PromptListSpec == Init /\ [][PromptListNext]_vars

\* sanitizeContent applied once and twice to texts made of a few fragments
SanitizerSpec == SanitizerInit /\ [][SanitizerNext]_vars

\* validateField applied to lists of tags
TagsSpec == TagsInit /\ [][ValidateTags]_vars

\* the prompt form alone
FormSpec == Init /\ [][FormNext]_vars

\* the improvement panel alone
ImprovementSpec == Init /\ [][ImprovementNext]_vars

\* renderings of lists of up to MaxListLen prompts in every sort mode
RenderingInit ==
    /\ SearchInit /\ ThemeInit /\ SessionInit /\ PromptListInit /\ ValidationInit /\ FormInit /\ ImprovementInit
    /\ rendering \in Renderings
    /\ sortedResults = <<>>

ListSpec == RenderingInit /\ [][ListNext]_vars

(***************************************************************************)
(* Properties of the search cache.                                         *)
(***************************************************************************)
Last(s) == s[Len(s)]

\* C1: a store that finds the cache full and its key new removes exactly the
\* oldest entry and appends the new one, and a cache hit leaves the cache as it
\* is, so that the first of 11 stored keys is the one that goes.
C1_FifoEviction ==
    [][ /\ (event'.op = "stored" /\ Len(searchCache) = CacheCap
                /\ ~MapHas(searchCache, event'.key))
            => MapKeys(searchCache') = Tail(MapKeys(searchCache)) \o <<event'.key>>
        /\ event'.op = "hit" => searchCache' = searchCache ]_vars

\* C2: the search cache never holds more than 10 entries, whatever the searches
\* and the order of the responses.
C2_CacheBounded == Len(searchCache) <= CacheCap

\* a full cache that has lost its first entries, after searches overlapped
C2_FullAfterOverlap ==
    /\ Len(searchCache) = CacheCap
    /\ event.op = "stored"
    /\ incidents.overlaps > 0
    /\ searchCache[1].k[1] \notin {Str_py, Str_Py}

\* C3: a search that goes to the network has no entry in the cache it looked at
\* whose query equals its own up to letter case and surrounding blanks, with
\* the same flag and filters.
C3_KeyIgnoresCaseAndBlanks ==
    [][ event'.op = "miss" =>
          \A i \in 1..Len(Last(inflight').cache) :
              LET k == Last(inflight').cache[i].k
              IN  ~ /\ ToLowerCase(Trim(k[1])) = ToLowerCase(Trim(searchTerm))
                    /\ k[2] = useSemanticSearch
                    /\ k[3] = filters ]_vars

\* C4: a cache hit starts no network call and shows exactly the results that
\* the search for the same trimmed query, flag and filters got from the server.
C4_HitServesStored ==
    [][ event'.op = "hit" =>
          /\ inflight' = inflight
          /\ event'.key = <<Trim(searchTerm), useSemanticSearch, filters>>
          /\ results' = ServerResults(Trim(searchTerm), useSemanticSearch, filters)
          /\ \/ \E i \in 1..Len(searchCache) :
                   searchCache[i] = [k |-> event'.key, v |-> results']
             \/ \E i \in 1..Len(debounceTimer.cache) :
                   debounceTimer.cache[i] = [k |-> event'.key, v |-> results'] ]_vars

\* a hit on a query typed with blanks around it, under a category filter
C4_HitShown ==
    /\ event.op = "hit"
    /\ Len(results) > 0
    /\ filters.category # ""
    /\ searchTerm = Padded(Str_py)
    /\ inflight = <<>>

C6_NoRetries ==
    [][ event.op = "failed" =>
          ~(event'.auto /\ event'.op = "miss" /\ event'.key = event.key) ]_vars

(***************************************************************************)
(* Properties of the generated palettes.                                   *)
(***************************************************************************)
\* the custom theme that the last createCustomTheme registered
Created == themes[themeEvent.key]

\* the channels of a "#rrggbb" string
ChannelsOf(hex) ==
    [c \in 1..3 |-> 16 * HexValue(CharAt(hex, 2 * c)) + HexValue(CharAt(hex, 2 * c + 1))]

\* HSL lightness of a "#rrggbb" string, in 1/510
LightnessOf(hex) ==
    Max3(ChannelsOf(hex)[1], ChannelsOf(hex)[2], ChannelsOf(hex)[3])
        + Min3(ChannelsOf(hex)[1], ChannelsOf(hex)[2], ChannelsOf(hex)[3])

\* "#rrggbb" in lowercase for a valid hex colour string
NormalizedHex(baseColor) ==
    LET c == TinyColor(baseColor)
    IN  "#" \o Pad2Hex(c.r) \o Pad2Hex(c.g) \o Pad2Hex(c.b)

\* C7: the primary palette of a theme created from a valid colour C has the
\* normalized hex of C at 500, C lightened by 45, 40, 30, 20, 10 at 50 to 400
\* and C darkened by 10, 20, 30, 40 at 600 to 900.
C7_PrimaryPalette ==
    (themeEvent.op = "create" /\ TinyColor(themeEvent.baseColor).isValid) =>
        LET C == TinyColor(themeEvent.baseColor)
            primary == Created.colors.primary
        IN  /\ primary[500] = NormalizedHex(themeEvent.baseColor)
            /\ primary[50] = ToHexString(Lighten(C, 45))
            /\ primary[100] = ToHexString(Lighten(C, 40))
            /\ primary[200] = ToHexString(Lighten(C, 30))
            /\ primary[300] = ToHexString(Lighten(C, 20))
            /\ primary[400] = ToHexString(Lighten(C, 10))
            /\ primary[600] = ToHexString(Darken(C, 10))
            /\ primary[700] = ToHexString(Darken(C, 20))
            /\ primary[800] = ToHexString(Darken(C, 30))
            /\ primary[900] = ToHexString(Darken(C, 40))

\* the theme made from "#A855F7", with the palette the library gives for it
C7_PurplePrimary ==
    /\ themeEvent.op = "create"
    /\ themeEvent.baseColor = "#A855F7"
    /\ currentTheme = themeEvent.key
    /\ Created.colors.primary = Palette(<< "#ffffff", "#ffffff",
            "#f3e7fe", "#dab6fc",
            "#c186f9", "#a855f7",
            "#8f24f5", "#760adc",
            "#5b08ab", "#41067a" >>)

\* C8 as stated: the secondary palette is the complement of C lightened by 45,
\* 40, 30, 20, 10 at 50 to 400, the complement at 500, and the complement
\* darkened by 10, 20, 30, 40 at 600 to 900.
C8_SecondaryLikePrimary ==
    (themeEvent.op = "create" /\ TinyColor(themeEvent.baseColor).isValid) =>
        LET K == Complement(TinyColor(themeEvent.baseColor))
            secondary == Created.colors.secondary
        IN  /\ secondary[500] = ToHexString(K)
            /\ secondary[50] = ToHexString(Lighten(K, 45))
            /\ secondary[100] = ToHexString(Lighten(K, 40))
            /\ secondary[200] = ToHexString(Lighten(K, 30))
            /\ secondary[300] = ToHexString(Lighten(K, 20))
            /\ secondary[400] = ToHexString(Lighten(K, 10))
            /\ secondary[600] = ToHexString(Darken(K, 10))
            /\ secondary[700] = ToHexString(Darken(K, 20))
            /\ secondary[800] = ToHexString(Darken(K, 30))
            /\ secondary[900] = ToHexString(Darken(K, 40))

\* C8, amended: the secondary palette is the complement of C lightened by 40,
\* 35, 25, 15, 5 at 50 to 400, the complement at 500, and the complement
\* darkened by 5, 15, 25, 35 at 600 to 900.
C8_SecondaryPalette ==
    (themeEvent.op = "create" /\ TinyColor(themeEvent.baseColor).isValid) =>
        LET K == Complement(TinyColor(themeEvent.baseColor))
            secondary == Created.colors.secondary
        IN  /\ secondary[500] = ToHexString(K)
            /\ secondary[50] = ToHexString(Lighten(K, 40))
            /\ secondary[100] = ToHexString(Lighten(K, 35))
            /\ secondary[200] = ToHexString(Lighten(K, 25))
            /\ secondary[300] = ToHexString(Lighten(K, 15))
            /\ secondary[400] = ToHexString(Lighten(K, 5))
            /\ secondary[600] = ToHexString(Darken(K, 5))
            /\ secondary[700] = ToHexString(Darken(K, 15))
            /\ secondary[800] = ToHexString(Darken(K, 25))
            /\ secondary[900] = ToHexString(Darken(K, 35))

\* the theme made from "#A855F7", with the secondary palette the library gives
C8_PurpleSecondary ==
    /\ themeEvent.op = "create"
    /\ themeEvent.baseColor = "#A855F7"
    /\ Created.colors.secondary = Palette(<< "#ffffff", "#ffffff",
            "#e5fdcf", "#cbfa9e",
            "#b1f86d", "#a4f755",
            "#97f63d", "#7df40c",
            "#64c309", "#4b9307" >>)

\* C9: in the primary and the secondary palette of every custom theme the
\* lightness never goes up from one shade to the next, and 50 is strictly
\* lighter than 900.
C9_LightnessDescends ==
    \A key \in DOMAIN themes \ DOMAIN PredefinedThemes :
        \A name \in {"primary", "secondary"} :
            LET palette == themes[key].colors[name]
            IN  /\ \A i \in 1..(Len(Shades) - 1) :
                      LightnessOf(palette[Shades[i]]) >= LightnessOf(palette[Shades[i + 1]])
                /\ LightnessOf(palette[50]) > LightnessOf(palette[900])

\* a theme whose lightest shades are clamped to white
C9_ClampedAtWhite ==
    /\ themeEvent.op = "create"
    /\ themeEvent.baseColor = "#e0e0ff"
    /\ Created.colors.primary[50] = "#ffffff"
    /\ Created.colors.primary[200] = "#ffffff"
    /\ Created.colors.secondary[100] = "#ffffff"
    /\ Created.colors.primary[900] # "#000000"

\* C10: createCustomTheme with a string that is no colour registers nothing and
\* selects nothing.
C10_InvalidColorRejected ==
    [][ (themeEvent'.op = "create" /\ ~TinyColor(themeEvent'.baseColor).isValid)
          => (themes' = themes /\ currentTheme' = currentTheme) ]_vars

(***************************************************************************)
(* Properties of the theme registry.                                       *)
(***************************************************************************)
SemanticNames == {"success", "warning", "error", "info", "neutral"}

\* C11: in every theme of the registry, predefined or generated, the success,
\* warning, error, info and neutral palettes are the tables of the first
\* predefined theme, and no step changes them in a theme that stays registered.
C11_SemanticPalettesShared ==
    [][ /\ \A key \in DOMAIN themes' : \A name \in SemanticNames :
              themes'[key].colors[name] = Predefined_blue.colors[name]
        /\ \A key \in DOMAIN themes \cap DOMAIN themes' : \A name \in SemanticNames :
              themes'[key].colors[name] = themes[key].colors[name] ]_vars

\* two custom themes of different base colours are registered beside the
\* predefined ones, and the user has switched back to a predefined theme
C11_TwoCustomThemes ==
    /\ themeEvent.op = "change"
    /\ currentTheme = "green"
    /\ \E k1, k2 \in DOMAIN themes \ DOMAIN PredefinedThemes :
          /\ themes[k1].colors.primary[500] = "#a855f7"
          /\ themes[k2].colors.primary[500] = "#0a0a0a"

(***************************************************************************)
(* Properties of the result list.                                          *)
(***************************************************************************)
\* two characters that are the same letter in either case, or the same character
SameIgnoringCase(a, b) ==
    \/ a = b
    \/ a \in 65..90 /\ b = a + 32
    \/ a \in 97..122 /\ b = a - 32

\* text contains query somewhere, letter case apart
ContainsIgnoringCase(text, query) ==
    \E i \in 0..(Len(text) - Len(query)) :
        \A k \in 1..Len(query) : SameIgnoringCase(text[i + k], query[k])

\* the score as the claims state it
StatedScore(prompt, query) ==
    (IF ContainsIgnoringCase(prompt.title, query) THEN 3 ELSE 0)
        + (IF ContainsIgnoringCase(prompt.description, query) THEN 2 ELSE 0)
        + (IF ContainsIgnoringCase(prompt.content, query) THEN 1 ELSE 0)

\* the position of a record in a list that holds it once
PositionIn(list, x) == CHOOSE i \in 1..Len(list) : list[i] = x

\* out holds the records of list, each as often as list does
IsPermutation(out, list) ==
    /\ Len(out) = Len(list)
    /\ \A i \in 1..Len(list) :
          Cardinality({j \in 1..Len(out) : out[j] = list[i]})
              = Cardinality({j \in 1..Len(list) : list[j] = list[i]})

\* ISO timestamps of the same form: a is before b
RECURSIVE IsoBefore(_, _)
IsoBefore(a, b) ==
    /\ a # <<>> /\ b # <<>>
    /\ \/ Head(a) < Head(b)
       \/ Head(a) = Head(b) /\ IsoBefore(Tail(a), Tail(b))

\* C12: the relevance score of every record of the results is 3 for the title
\* plus 2 for the description plus 1 for the content, each counted when the
\* text contains the query whatever the letter case; it lies in 0..6.
C12_RelevanceScore ==
    \A i \in 1..Len(rendering.results) :
        LET prompt == rendering.results[i]
        IN  /\ GetRelevanceScore(prompt, rendering.searchTerm)
                  = StatedScore(prompt, rendering.searchTerm)
            /\ GetRelevanceScore(prompt, rendering.searchTerm) \in 0..6

\* the query "PY" scores a record with "Python" in its title and one that has
\* "py" in all three texts, in a rendered list
C12_UpperCaseQueryScored ==
    /\ rendering.searchTerm = Str_PY
    /\ sortedResults # <<>>
    /\ \E i, j \in 1..Len(rendering.results) :
          /\ rendering.results[i].id = 1
          /\ GetRelevanceScore(rendering.results[i], rendering.searchTerm) = 3
          /\ rendering.results[j].id = 4
          /\ GetRelevanceScore(rendering.results[j], rendering.searchTerm) = 6

\* C13: in relevance mode every render shows a permutation of the results in
\* descending order of score, records of equal score in their input order; a
\* record with the query in its title stands before one with the query in its
\* content only.
C13_RelevanceOrder ==
    [][ rendering'.sortBy = "relevance" =>
          LET out == sortedResults'
              score(p) == StatedScore(p, rendering'.searchTerm)
          IN  /\ IsPermutation(out, rendering'.results)
              /\ \A i, j \in 1..Len(out) : i < j =>
                    /\ score(out[i]) >= score(out[j])
                    /\ score(out[i]) = score(out[j]) =>
                          PositionIn(rendering'.results, out[i])
                              < PositionIn(rendering'.results, out[j])
              /\ \A i, j \in 1..Len(out) :
                    ( /\ ContainsIgnoringCase(out[i].title, rendering'.searchTerm)
                      /\ score(out[j]) = 1 ) => i < j ]_vars

\* the results 5, 3, 4, 1 for "python" are shown as 1, 3, 5, 4: the title match
\* first, the content match next, the two without a match as they came
C13_TitleFirstTiesKept ==
    /\ rendering.sortBy = "relevance"
    /\ rendering.searchTerm = Str_python
    /\ [i \in 1..Len(rendering.results) |-> rendering.results[i].id] = <<5, 3, 4, 1>>
    /\ [i \in 1..Len(sortedResults) |-> sortedResults[i].id] = <<1, 3, 5, 4>>

\* C14: in usage mode every render shows a permutation of the results in
\* descending order of usage count and in date mode in descending order of
\* creation date, records of equal value in their input order; another
\* search term does not change the list in these modes.
C14_UsageAndDateOrder ==
    [][ /\ rendering'.sortBy = "usage" =>
              LET out == sortedResults'
              IN  /\ IsPermutation(out, rendering'.results)
                  /\ \A i, j \in 1..Len(out) : i < j =>
                        /\ out[i].usage_count >= out[j].usage_count
                        /\ out[i].usage_count = out[j].usage_count =>
                              PositionIn(rendering'.results, out[i])
                                  < PositionIn(rendering'.results, out[j])
        /\ rendering'.sortBy = "date" =>
              LET out == sortedResults'
              IN  /\ IsPermutation(out, rendering'.results)
                  /\ \A i, j \in 1..Len(out) : i < j =>
                        /\ ~IsoBefore(out[i].created_at, out[j].created_at)
                        /\ out[i].created_at = out[j].created_at =>
                              PositionIn(rendering'.results, out[i])
                                  < PositionIn(rendering'.results, out[j])
        /\ ( /\ rendering'.sortBy \in {"usage", "date"}
             /\ rendering'.sortBy = rendering.sortBy
             /\ rendering'.results = rendering.results
             /\ sortedResults # <<>> ) => sortedResults' = sortedResults ]_vars

\* the results 2, 3, 1, 5 are shown by usage as 3, 2, 1, 5, although 1 scores
\* higher than 2 and 3 for the query
C14_UsageOrderShown ==
    /\ rendering.sortBy = "usage"
    /\ rendering.searchTerm = Str_py
    /\ [i \in 1..Len(rendering.results) |-> rendering.results[i].id] = <<2, 3, 1, 5>>
    /\ [i \in 1..Len(sortedResults) |-> sortedResults[i].id] = <<3, 2, 1, 5>>

C16_ExpiredTokenRefreshed ==
    [][ ( /\ sessionEvent'.op = "api401"
          /\ sessionEvent'.token # NoToken
          /\ refreshToken # NoToken )
        => /\ refreshToken' = refreshToken
           /\ isAuthenticated' = isAuthenticated
           /\ \E k \in 1..Len(requests') :
                 \/ requests'[k].kind = "refresh"
                 \/ requests'[k].kind = "data" /\ requests'[k].retry ]_vars

(***************************************************************************)
(* Properties of overlapping searches.                                     *)
(***************************************************************************)
\* C17: no search is cancelled: whenever the response to a search request
\* arrives with a result list, whether of the regular search or of the AI
\* search, and whatever else is in flight or was issued after it, the results
\* displayed become the results of that response.
C17_LastResponseShown ==
    [][ /\ event'.op = "stored"
           => results' = ServerResults(event'.key[1], event'.key[2], event'.key[3])
        /\ ( event'.op = "aidone" /\ results' # <<>> )
           => results' = ServerResults(event'.key[1], event'.key[2], event'.key[3])
        /\ event'.op \in {"stored", "nodata", "failed", "aidone", "aifailed"}
           => \E i \in 1..Len(inflight) :
                 /\ inflight[i].key = event'.key
                 /\ inflight[i].phase = "search" ]_vars

\* the regular search for "py" was issued first and the AI search for "Py"
\* after it; the AI search is still in flight when the response of the regular
\* search arrives, and the results of the superseded search are displayed
C17_SupersededResponseShown ==
    /\ event.op = "stored"
    /\ event.key[1] = Str_py
    /\ searchTerm = Str_Py
    /\ Len(inflight) = 2
    /\ inflight[1].kind = "search" /\ inflight[1].key[1] = Str_py
    /\ inflight[2].kind = "semantic" /\ inflight[2].key[1] = Str_Py
    /\ results = ServerResults(Str_py, FALSE, filters)

(***************************************************************************)
(* Properties of the favourite toggles.                                    *)
(***************************************************************************)
\* the flag after n flips
FlippedTimes(flag, n) == IF n % 2 = 0 THEN flag ELSE ~ flag

\* C18: once every call has settled, the is_favorite flag of every prompt of
\* the list equals the flag it was first loaded with, flipped once per
\* successful toggle call; in particular a failed toggle leaves the flag as it
\* was before the toggle.
C18_SettledFlagCountsSuccesses ==
    calls = <<>> =>
        \A k \in 1..Len(prompts) :
            prompts[k].is_favorite =
                FlippedTimes(toggleLog[prompts[k].id].initial,
                             toggleLog[prompts[k].id].successes)

(***************************************************************************)
(* Properties of the life of cache entries.                                *)
(***************************************************************************)
\* C19: every search call that succeeds with a result list for a key that is
\* not in the cache leaves the cache with an entry for that key holding the
\* returned results, whether the call was made by the regular search (debounced
\* or submitted) or by the AI search button.
C19_SuccessfulCallStored ==
    [][ ( /\ \/ event'.op = "stored"
             \/ event'.op = "aidone" /\ results' # <<>>
          /\ ~ MapHas(searchCache, event'.key) )
        => /\ MapHas(searchCache', event'.key)
           /\ MapGet(searchCache', event'.key)
                 = ServerResults(event'.key[1], event'.key[2], event'.key[3]) ]_vars

\* C20: no step invalidates a cache entry: clearing the search (which also
\* resets the filters), a cache hit and a failed search leave the entries as
\* they are, and an entry disappears only in a store into a full cache, which
\* evicts the oldest entry and no other.
C20_OnlyEvictionRemoves ==
    [][ /\ event'.op \in {"clear", "hit", "failed"} => searchCache' = searchCache
        /\ ( \E i \in 1..Len(searchCache) : ~ MapHas(searchCache', searchCache[i].k) )
           => /\ event'.op = "stored"
              /\ Len(searchCache) = CacheCap
              /\ \A i \in 2..Len(searchCache) : MapHas(searchCache', searchCache[i].k) ]_vars

(***************************************************************************)
(* Properties of the applied theme and of its persistence.                 *)
(***************************************************************************)
\* C21: after any sequence of changeTheme, createCustomTheme and
\* toggleDarkMode (and reloads), once the effect has run, every custom
\* property --color-<palette>-<shade> of the 7 palettes and 10 shades is set on
\* the root element and holds the value of the current theme, and the dark
\* class follows darkMode.
C21_StyleIsCurrentTheme ==
    /\ currentTheme \in DOMAIN themes
    /\ Cardinality(Properties) = 70
    /\ \A p \in Properties :
          /\ p.name \in DOMAIN rootStyle
          /\ rootStyle[p.name] = themes[currentTheme].colors[p.paletteName][p.shade]
    /\ darkClass = darkMode

\* a custom theme was applied, then dark mode toggled, then the green theme
\* selected: the primary colour on the root element is green's, not the custom one's
C21_BackFromCustomTheme ==
    /\ themeEvent.op = "change"
    /\ currentTheme = "green"
    /\ darkMode
    /\ "custom-1" \in DOMAIN themes
    /\ themes["custom-1"].colors.primary[500] # PredefinedThemes["green"].colors.primary[500]
    /\ rootStyle["--color-primary-500"] = PredefinedThemes["green"].colors.primary[500]

\* C22: after every change localStorage holds the current theme key under
\* "theme" and the current dark mode flag under "darkMode"; a restart restores
\* dark mode as stored, takes the stored key as the current theme when it is
\* one of blue, green and purple and "blue" otherwise, and starts from the
\* predefined registry, so a custom theme is gone.
C22_StorageRoundTrip ==
    [][ /\ localStorage'["theme"] = currentTheme'
        /\ localStorage'["darkMode"] = (IF darkMode' THEN "true" ELSE "false")
        /\ themeEvent'.op = "reload"
           => /\ darkMode' = (localStorage["darkMode"] = "true")
              /\ darkMode' = darkMode
              /\ currentTheme' = IF localStorage["theme"] \in {"blue", "green", "purple"}
                                 THEN localStorage["theme"] ELSE "blue"
              /\ currentTheme \notin {"blue", "green", "purple"}
                 => currentTheme' = "blue" /\ currentTheme \notin DOMAIN themes' ]_vars

\* the page has been loaded again with the green theme and dark mode stored
C22_GreenAndDarkRestored ==
    /\ themeEvent.op = "reload"
    /\ currentTheme = "green"
    /\ darkMode
    /\ localStorage["theme"] = "green"
    /\ localStorage["darkMode"] = "true"

HoldsElement(s, open, close) ==
    \E i \in 1..Len(s), j \in 1..Len(s) :
        /\ MatchesAt(s, i, open)
        /\ i + Len(open) <= Len(s) /\ ~ IsWordChar(s[i + Len(open)])
        /\ j >= i + Len(open)
        /\ MatchesAt(s, j, close)

\* s holds "on", word characters, blanks and "="
HoldsHandler(s) ==
    \E i \in 1..Len(s), w \in 1..Len(s), e \in 1..Len(s) :
        /\ i + 2 <= w /\ w < e
        /\ SameLetter(s[i], 111) /\ SameLetter(s[i + 1], 110)
        /\ \A h \in (i + 2)..w : IsWordChar(s[h])
        /\ \A h \in (w + 1)..(e - 1) : IsWhiteSpace(s[h])
        /\ s[e] = 61

\* C30: the result of sanitizeContent holds no complete script or iframe
\* element, no "javascript:" in any letter case and no on<word>= text, and
\* sanitizeContent applied to its result returns the result.
C30_SanitizedIsClean ==
    [][ /\ ~ HoldsElement(sanitized', Str_script_open, Str_script_close)
        /\ ~ HoldsElement(sanitized', Str_iframe_open, Str_iframe_close)
        /\ ~ Test(sanitized', Str_javascript)
        /\ ~ HoldsHandler(sanitized')
        /\ applied = 1 => sanitized' = sanitized ]_vars

\* the tag lists that the tag rules allow
AllowedTagList(tags) ==
    /\ Len(tags) <= 10
    /\ \A k \in 1..Len(tags) :
          /\ Len(tags[k]) \in 1..50
          /\ \A i \in 1..Len(tags[k]) :
                \/ tags[k][i] \in 48..57 \/ tags[k][i] \in 65..90 \/ tags[k][i] \in 97..122
                \/ tags[k][i] = 45 \/ tags[k][i] = 95

\* C26: validateField accepts a list of tags exactly when the list has at most
\* 10 tags and every tag has 1 to 50 characters out of letters, digits, hyphen
\* and underscore.
C26_TagRulesExact ==
    verdict # NotValidated => (verdict.isValid <=> AllowedTagList(input))

\* what handleSubmit hands to the validation: the form data with the content,
\* the title and the description sanitized
C23_Sanitized(data) ==
    [data EXCEPT !.content = SanitizeContent(data.content),
                 !.title = SanitizeContent(data.title),
                 !.description = SanitizeContent(data.description)]

\* the client-side validation accepts the data: validatePrompt finds it valid
\* and none of the dangerous patterns of checkContentSafety occurs in the content
C23_Accepted(data) ==
    /\ ValidatePrompt(data).isValid
    /\ \A pattern \in DangerousPatterns : ~ Test(data.content, pattern)

\* C23: a step adds at most one create or update call, and the data of the
\* call is accepted by the client-side validation; a submission whose
\* sanitized form data is not accepted makes no create or update call, starts
\* no guardrails call and sets a field error
C23_SaveOnlyAfterValidation ==
    [][ /\ saveCalls' # saveCalls =>
              /\ Len(saveCalls') = Len(saveCalls) + 1
              /\ SubSeq(saveCalls', 1, Len(saveCalls)) = saveCalls
              /\ C23_Accepted(saveCalls'[Len(saveCalls')].data)
              /\ formEvent'.op = "submit" =>
                    saveCalls'[Len(saveCalls')].data = C23_Sanitized(formData)
        /\ ( /\ formEvent'.op = "submit"
             /\ formEvent'.outcome # "unchanged"
             /\ ~ C23_Accepted(C23_Sanitized(formData)) ) =>
              /\ saveCalls' = saveCalls
              /\ submissions' = submissions
              /\ guardrailsCalls' = guardrailsCalls
              /\ \E fieldName \in FieldNames : ~ fieldErrors'[fieldName].isValid
      ]_vars

\* a submission with unsafe content has been rejected with a field error
\* after an accepted one has made its call
C23_RejectedAfterSaved ==
    /\ formEvent.op = "submit" /\ formEvent.outcome = "unsafe"
    /\ ~ fieldErrors["content"].isValid
    /\ Len(saveCalls) = 1

\* C24: while a submission is in progress, from the start of its validation
\* until its save call has settled, no second submission starts: at most one
\* handleSubmit call awaits the guardrails service or the save call
C24_OneSubmissionAtATime == Len(submissions) <= 1

\* C27: a guardrails verdict of not valid ends the submission without a
\* create or update call and with a field error on the content; an error of
\* the guardrails service lets the submission go on to its create or update
\* call with the data that passed the basic validation; a submission made
\* with guardrails disabled does not call the guardrails service, and one
\* made with guardrails enabled calls it before any create or update call
C27_GuardrailsVerdictDecides ==
    [][ /\ (formEvent'.op = "guardrails response" /\ formEvent'.outcome = "invalid") =>
              /\ saveCalls' = saveCalls
              /\ Len(submissions') = Len(submissions) - 1
              /\ ~ fieldErrors'["content"].isValid
        /\ (formEvent'.op = "guardrails response" /\ formEvent'.outcome = "error") =>
              /\ Len(saveCalls') = Len(saveCalls) + 1
              /\ C23_Accepted(saveCalls'[Len(saveCalls')].data)
              /\ Len(submissions') = Len(submissions)
        /\ (formEvent'.op = "submit" /\ ~ guardrailsEnabled) =>
              guardrailsCalls' = guardrailsCalls
        /\ (formEvent'.op = "submit" /\ guardrailsEnabled) => saveCalls' = saveCalls
        /\ guardrailsCalls' # guardrailsCalls =>
              /\ guardrailsEnabled
              /\ guardrailsCalls' = guardrailsCalls + 1
      ]_vars

\* the guardrails service has failed and the submission has made its save
\* call, after an earlier submission was blocked by a verdict of not valid
C27_SavedAfterServiceError ==
    /\ formEvent.op = "guardrails response" /\ formEvent.outcome = "error"
    /\ Len(saveCalls) = 1
    /\ guardrailsCalls = 2
    /\ Len(submissions) = 1 /\ submissions[1].phase = "save"

\* C28: an improved prompt is shown only when the guardrails check of the
\* input and the guardrails check of the candidate have both returned valid,
\* and it is that candidate; the improve request is sent only after the input
\* check returned valid; and whenever no improvePrompt call is in progress
\* the loading flag is false
C28_ImprovedOnlyAfterBothChecks ==
    /\ [] /\ improvedPrompt # <<>> =>
               /\ improveRun.phase = "idle"
               /\ improveRun.pre = "valid" /\ improveRun.post = "valid"
               /\ improvedPrompt = improveRun.candidate
          /\ improveRun.phase \in {"improve", "post-check"} => improveRun.pre = "valid"
          /\ improveRun.phase = "idle" <=> ~ improving
          /\ (improveRun.phase = "idle" /\ "valid" \notin {improveRun.pre, improveRun.post}) =>
               improvedPrompt = <<>>
          /\ (improveRun.phase = "idle" /\ {"invalid", "error"} \cap {improveRun.pre, improveRun.post} # {}) =>
               improvedPrompt = <<>> /\ improveError # "null"
    /\ [][ /\ improvedPrompt' \notin {improvedPrompt, <<>>} =>
               improveRun.phase = "post-check" /\ improveRun'.post = "valid"
           /\ \A k \in 1..Len(improveLog') :
                 (k > Len(improveLog) /\ improveLog'[k].api = "improve") =>
                     /\ improveRun.phase = "pre-check" /\ improveRun'.pre = "valid"
                     /\ improveLog'[k].content = improveRun.prompt
         ]_vars

\* a candidate is shown as the improved prompt after both guardrails checks
\* returned valid, in the second run that reached the improve request
C28_ImprovedInSecondRun ==
    /\ improvedPrompt # <<>>
    /\ improveEvent = "post-check"
    /\ ~ improving
    /\ Len(SelectSeq(improveLog, LAMBDA r : r.api = "improve")) = 2

\* C25: the refresh handling terminates without a chain of refresh requests:
\* a refresh request is sent for a request of the application that was
\* answered 401, never for a refresh request that was answered 401, so the
\* only request waiting behind a refresh request is the one to send again
C25_NoRefreshChain ==
    \A i \in 1..Len(requests) :
        requests[i].kind = "refresh" =>
            /\ Len(requests[i].pending) = 1
            /\ requests[i].pending[1] # "refresh"

====
